---- MODULE Spec2Model ----
(***************************************************************************)
(* riparr: the marker store (queue/markers.py), the disc watcher           *)
(* (detection/watcher.py, poller.py, udev.py) and the queue manager        *)
(* (queue/manager.py, cli/commands/watch.py) as state machines.            *)
(*                                                                         *)
(* Eight specifications share the module:                                  *)
(*   SpecMarkers  the MarkerManager operations on a directory of files     *)
(*   SpecListing  list_jobs over marker files whose content gets damaged   *)
(*   SpecWatcher  DiscWatcher.start over the polling and the udev backend  *)
(*   SpecQueue    one run of the watch daemon: process_disc tasks, the     *)
(*                drain loop, the two semaphores                           *)
(*   SpecRestart  the same, where the process may die and start again      *)
(*   SpecProgress one run under the fairness of the event loop             *)
(*   SpecStop     the same, where stop() may precede process_queue         *)
(*   SpecSelector TitleSelector.classify_disc and select_titles on a disc  *)
(***************************************************************************)
EXTENDS Integers, Sequences, FiniteSets, TLC

\* ------------------------------------------------------------------ bounds
\* Titles on a disc of arbitrary content, and episodes on a TV disc.
MaxDiscTitles == 3
MaxEpisodes == 5
NumFiles == 2
MaxClock == 5
NumDevices == 2
MaxProbes == 5
MaxToggles == 3
NumDiscs == 2
MaxTitles == 2
MaxLimit == 2
MaxRuns == 2

\* ------------------------------------------------------------ marker store
VARIABLES
    store,      \* store[f][s]: the marker file <f>.<suffix of s> (absent or its record)
    mkv,        \* mkv[f]: the media file f exists under base_dir
    dirs,       \* the directories that exist under base_dir
    parent,     \* parent[f]: the directory of media file f and of its markers
    stem,       \* stem[f]: the file name of f without ".mkv" (the job name), which
                \* only retry_job reads
    clock,      \* datetime.now(), as a counter
    op,         \* the last MarkerManager / recovery operation that ran
    opFile,     \* the file it was called on (0 when it takes none)
    opStatus,   \* the status it was given (PyNone when it takes none)
    ret         \* what it returned

markerVars == <<store, mkv, dirs, parent, stem, clock, op, opFile, opStatus, ret>>

\* ------------------------------------------------------------ disc watcher
VARIABLES
    wMethod,        \* DiscWatcher._selected_method: "polling" or "udev"
    wOnce,          \* the once argument of start()
    wPc,            \* where start() is: "init", "baseline", "sleeping", "probing",
                    \* "monitoring", "done" (returned) or "raised"
    wIdx,           \* the device the poller's for loop is at
    watcherRunning, \* DiscWatcher._running
    backendRunning, \* DevicePoller._running / UdevMonitor._running
    discStates,     \* DevicePoller._disc_states
    present,        \* the drives: whether a disc is in each
    toggles,        \* drive events so far: discs put in or taken out, udev wake-ups
    probeLog,       \* per device, the results of the poller's probes so far
    insertCalls,    \* per device, calls the backend made of its on_insert argument
    removeCalls,    \* per device, calls the backend made of its on_remove argument
    insertRan,      \* per device, runs to completion of the async on_insert given to start()
    removeRan,      \* per device, runs to completion of the async on_remove given to start()
    unawaited,      \* coroutine objects created by a call and never awaited
    stopRequested   \* DiscWatcher.stop() was called while start() was running

watcherVars == <<wMethod, wOnce, wPc, wIdx, watcherRunning, backendRunning, discStates,
                 present, toggles, probeLog, insertCalls, removeCalls, insertRan,
                 removeRan, unawaited, stopRequested>>

\* ----------------------------------------------------------- queue manager
VARIABLES
    cfg,        \* Settings: max_concurrent_rips, max_concurrent_encodes,
                \* eject_after_rip, encode_enabled, delete_raw_after_encode
    daemon,     \* "down" or "up": whether a process with a QueueManager is alive
    runs,       \* how many processes were started so far
    ripSem,     \* QueueManager._rip_semaphore: its free slots
    encSem,     \* QueueManager._encode_semaphore: its free slots
    qRunning,   \* QueueManager._running
    qPc,        \* process_queue: "off", "sleeping", "enc_wait", "encoding", "returned"
    qFile,      \* the job_info.path process_queue is working on (0: none)
    qDone,      \* the file and the outcome of the encode process_queue ended last
    qStopped,   \* QueueManager.stop() was called in this run
    dPc,        \* per process_disc call: "idle", "scanning", "metadata", "search", "wait_rip",
                \* "ripping", "ejecting", "enc_wait", "encoding", "returned", "dead"
    dInline,    \* per call, its encode argument
    dJob,       \* per call, the Job: status, completed_at set, errors
    dSel,       \* per call, len(job.selected_titles)
    dIdx,       \* per call, the title being ripped or the output file being encoded
    dFiles,     \* per call, ripped_files / job.output_files
    dExc,       \* per call, the message of the exception its try block raised
    dEjected,   \* per call, whether it has run _eject_disc
    dDisc,      \* per call, job.disc: its name and the metadata found for it
    nextPath    \* the output path of the next title ripped (each title has its own)

queueVars == <<cfg, daemon, runs, ripSem, encSem, qRunning, qPc, qFile, qDone, qStopped, dPc,
              dInline,
               dJob, dSel, dIdx, dFiles, dExc, dEjected, dDisc, nextPath>>


\* ---------------------------------------------------------- title selector
VARIABLES
    selector,   \* the TitleSelector: min_movie_duration, min_tv_duration, max_titles
    discTitles, \* the titles of the disc, as given to classify_disc / select_titles
    selOp,      \* the TitleSelector method that ran last ("init": none yet)
    selArg,     \* the min_duration argument of select_titles: <<m>>, or <<>> for None
    selClass,   \* what classify_disc returned
    selected    \* what select_titles returned

selectorVars == <<selector, discTitles, selOp, selArg, selClass, selected>>

\* ------------------------------------------- create_marker, step by step
VARIABLE
    pending     \* the create_marker call that has removed the old markers (line
                \* 86) and not yet written the new one (line 103), with its
                \* arguments; pc "idle" when there is none

Files == 1..NumFiles

Statuses == {"ready", "transcoding", "failed", "complete"}

\* MARKER_SUFFIXES, in the dict's iteration order.
MARKER_SUFFIXES == <<"ready", "transcoding", "failed", "complete">>

\* Python values of the optional arguments: None, the empty dict / string
\* (falsy), and non-empty values.
PyNone == "None"
MetadataArgs == {PyNone, "{}", "m1", "m2"}
ErrorArgs == {PyNone, "", "e1"}

Truthy(v) == v \notin {PyNone, "{}", ""}

\* A marker file that does not exist. (`content` is what reading the file
\* yields and `mtime` its modification time; the other fields are the keys of
\* the record written into it.)
NoMarker ==
    [exists |-> FALSE, created_at |-> 0, metadata |-> PyNone, error |-> PyNone,
     content |-> "record", mtime |-> 0]

\* A marker record whose created_at is not the time of the call.
MarkerDataWithoutTime(metadata, error, now) ==
    [exists |-> TRUE,
     created_at |-> 0,
     metadata |-> IF Truthy(metadata) THEN metadata ELSE PyNone,
     error |-> IF Truthy(error) THEN error ELSE PyNone,
     content |-> "record",
     mtime |-> now]

\* The record create_marker writes: the "metadata" and "error" keys are
\* written only for truthy arguments, and data.get() of a missing key is None.
MarkerData(metadata, error, now) ==
    [exists |-> TRUE,
     created_at |-> now,
     metadata |-> IF Truthy(metadata) THEN metadata ELSE PyNone,
     error |-> IF Truthy(error) THEN error ELSE PyNone,
     content |-> "record",
     mtime |-> now]

\* A remove_markers that unlinks the ".ready" marker only.
RemoveReadyOnly(st, f) == [st EXCEPT ![f]["ready"] = NoMarker]

\* remove_markers: unlink every suffix that exists.
RemoveMarkersIn(st, f) == [st EXCEPT ![f] = [s \in Statuses |-> NoMarker]]

\* A create_marker that forgets to remove the existing markers.
CreateMarkerKeepOld(st, f, status, metadata, error, now) ==
    [st EXCEPT ![f][status] = MarkerData(metadata, error, now)]

\* create_marker: remove_markers, then write the marker of `status`.
CreateMarkerIn(st, f, status, metadata, error, now) ==
    [RemoveMarkersIn(st, f) EXCEPT ![f][status] = MarkerData(metadata, error, now)]

RECURSIVE FirstExisting(_, _, _)
FirstExisting(st, f, i) ==
    IF i > Len(MARKER_SUFFIXES) THEN PyNone
    ELSE IF st[f][MARKER_SUFFIXES[i]].exists THEN MARKER_SUFFIXES[i]
    ELSE FirstExisting(st, f, i + 1)

\* get_status: the first suffix, in dict order, whose marker file exists.
GetStatus(st, f) == FirstExisting(st, f, 1)

\* An update_status that passes no metadata on to create_marker.
UpdateStatusDropsMetadata(st, f, new_status, error, now) ==
    IF GetStatus(st, f) = PyNone THEN st
    ELSE CreateMarkerIn(st, f, new_status, PyNone, error, now)

\* An update_status that writes the marker even when the file has none.
UpdateStatusCreates(st, f, new_status, error, now) ==
    CreateMarkerIn(st, f, new_status,
                   IF GetStatus(st, f) = PyNone THEN PyNone
                   ELSE st[f][GetStatus(st, f)].metadata,
                   error, now)

\* update_status: None without a marker, else create_marker with the
\* metadata read from the current marker.
UpdateStatusIn(st, f, new_status, error, now) ==
    IF GetStatus(st, f) = PyNone THEN st
    ELSE CreateMarkerIn(st, f, new_status, st[f][GetStatus(st, f)].metadata, error, now)

UpdateStatusRet(st, f) == GetStatus(st, f) # PyNone

\* The files list_jobs reports: *.mkv files with a marker, filtered by status
\* (PyNone: no filter).
ListedFiles(st, files, status_filter) ==
    {f \in Files : /\ files[f]
                   /\ GetStatus(st, f) # PyNone
                   /\ (status_filter = PyNone \/ GetStatus(st, f) = status_filter)}

\* What a marker file can hold: the record create_marker wrote, or, after
\* damage, text that is not JSON (an empty or cut-off file), bytes that are not
\* UTF-8, a JSON object without a usable "created_at", or JSON that is not an
\* object (a list, a number, null).
ContentKinds == {"record", "not_json", "not_utf8", "no_timestamp", "not_object"}

\* list_jobs, lines 187-191: what reading a marker of each kind raises.
\* json.loads raises JSONDecodeError, read_text UnicodeDecodeError,
\* fromisoformat("") ValueError, and data.get on a non-dict AttributeError.
ReadRaises(content) ==
    CASE content = "record" -> PyNone
      [] content = "not_json" -> "JSONDecodeError"
      [] content = "not_utf8" -> "UnicodeDecodeError"
      [] content = "no_timestamp" -> "ValueError"
      [] content = "not_object" -> "AttributeError"

\* list_jobs, line 192: except (json.JSONDecodeError, FileNotFoundError,
\* ValueError); JSONDecodeError and UnicodeDecodeError are ValueErrors.
ListJobsCatches(e) ==
    e \in {"JSONDecodeError", "FileNotFoundError", "ValueError", "UnicodeDecodeError"}

\* list_jobs, lines 183-194, for a file with a marker: the JobInfo fields read
\* from the marker, with the modification time and no error / metadata when
\* the read raised one of the caught exceptions.
JobInfoOf(st, f) ==
    LET m == st[f][GetStatus(st, f)] IN
    IF ReadRaises(m.content) = PyNone
    THEN [path |-> f, status |-> GetStatus(st, f), created_at |-> m.created_at,
          error |-> m.error, metadata |-> m.metadata]
    ELSE [path |-> f, status |-> GetStatus(st, f), created_at |-> m.mtime,
          error |-> PyNone, metadata |-> PyNone]

CreatedAt(st, f) == JobInfoOf(st, f).created_at

\* A sort that puts the listed file with the greatest creation time first.
NewestOf(st, S) ==
    CHOOSE f \in S : \A g \in S :
        \/ CreatedAt(st, f) > CreatedAt(st, g)
        \/ (CreatedAt(st, f) = CreatedAt(st, g) /\ f >= g)

\* jobs.sort(key=created_at): the listed file with the least creation time
\* (the lower path on a tie) comes first.
OldestOf(st, S) ==
    CHOOSE f \in S : \A g \in S :
        \/ CreatedAt(st, f) < CreatedAt(st, g)
        \/ (CreatedAt(st, f) = CreatedAt(st, g) /\ f <= g)

RECURSIVE SortByCreated(_, _)
SortByCreated(st, S) ==
    IF S = {} THEN <<>>
    ELSE <<OldestOf(st, S)>> \o SortByCreated(st, S \ {OldestOf(st, S)})

\* list_jobs(status_filter), as the sequence of paths of the JobInfo records.
ListJobs(st, files, status_filter) == SortByCreated(st, ListedFiles(st, files, status_filter))

\* list_jobs raises when reading a listed file's marker raises an exception
\* its except clause does not name.
ListJobsRaises(st, files, status_filter) ==
    \E f \in ListedFiles(st, files, status_filter) :
        LET e == ReadRaises(st[f][GetStatus(st, f)].content) IN
        e # PyNone /\ ~ListJobsCatches(e)

\* A recovery that skips the last interrupted job of the listing.
RECURSIVE RecoverSkipLast(_, _, _, _)
RecoverSkipLast(st, jobs, now, count) ==
    IF Len(jobs) <= 1 THEN [store |-> st, clock |-> now, count |-> count]
    ELSE RecoverSkipLast(UpdateStatusIn(st, Head(jobs), "ready", PyNone, now),
                         Tail(jobs), now + 1, count + 1)

\* recover_interrupted: every job listed in "transcoding" gets
\* update_status(path, "ready"), and the jobs are counted.
RECURSIVE RecoverLoop(_, _, _, _)
RecoverLoop(st, jobs, now, count) ==
    IF jobs = <<>> THEN [store |-> st, clock |-> now, count |-> count]
    ELSE RecoverLoop(UpdateStatusIn(st, Head(jobs), "ready", PyNone, now),
                     Tail(jobs), now + 1, count + 1)

RecoverResult(st, files, now) ==
    RecoverLoop(st, ListJobs(st, files, "transcoding"), now, 0)

\* A retry of all failed jobs that stops after the first one.
RECURSIVE RetryFirstOnly(_, _, _, _)
RetryFirstOnly(st, jobs, now, count) ==
    IF jobs = <<>> \/ count = 1 THEN [store |-> st, clock |-> now, count |-> count]
    ELSE RetryFirstOnly(UpdateStatusIn(st, Head(jobs), "ready", PyNone, now),
                        Tail(jobs), now + 1, count + 1)

\* retry_all_failed: every job listed as "failed" gets
\* update_status(path, "ready"), and the jobs are counted.
RECURSIVE RetryLoop(_, _, _, _)
RetryLoop(st, jobs, now, count) ==
    IF jobs = <<>> THEN [store |-> st, clock |-> now, count |-> count]
    ELSE RetryLoop(UpdateStatusIn(st, Head(jobs), "ready", PyNone, now),
                   Tail(jobs), now + 1, count + 1)

RetryAllResult(st, files, now) == RetryLoop(st, ListJobs(st, files, "failed"), now, 0)

\* retry_job(name): the first job of the "failed" listing whose name is `name`
\* gets update_status(path, "ready") and the call returns True; without such
\* a job it returns False.
RECURSIVE RetryJobLoop(_, _, _, _, _)
RetryJobLoop(st, names, jobs, name, now) ==
    IF jobs = <<>> THEN [store |-> st, clock |-> now, ok |-> FALSE]
    ELSE IF names[Head(jobs)] = name
    THEN [store |-> UpdateStatusIn(st, Head(jobs), "ready", PyNone, now),
          clock |-> now + 1, ok |-> TRUE]
    ELSE RetryJobLoop(st, names, Tail(jobs), name, now)

RetryJobResult(st, files, names, name, now) ==
    RetryJobLoop(st, names, ListJobs(st, files, "failed"), name, now)

\* ----------------------------------------------------------- watcher model
Devices == 1..NumDevices

\* The state of a watcher that was constructed and not started.
WatcherIdle ==
    /\ wMethod = "polling" /\ wOnce = FALSE /\ wPc = "init" /\ wIdx = 1
    /\ watcherRunning = FALSE /\ backendRunning = FALSE
    /\ discStates = [d \in Devices |-> FALSE]
    /\ present = [d \in Devices |-> FALSE]
    /\ toggles = 0
    /\ probeLog = [d \in Devices |-> <<>>]
    /\ insertCalls = [d \in Devices |-> 0]
    /\ removeCalls = [d \in Devices |-> 0]
    /\ insertRan = [d \in Devices |-> 0]
    /\ removeRan = [d \in Devices |-> 0]
    /\ unawaited = 0
    /\ stopRequested = FALSE

Discs == 1..NumDiscs

\* Settings.max_concurrent_rips and max_concurrent_encodes, by default.
DefaultMaxRips == 1
DefaultMaxEncodes == 2

NewJob == [status |-> "pending", completed_at |-> FALSE, errors |-> <<>>]

\* Disc(device=device): no name and no metadata yet. The name is "DISC" once
\* the scan has found one; the metadata is named after the service that
\* found it, "arm" (the DVD-ID lookup) or "tmdb" (the search by disc name).
NewDisc == [name |-> PyNone, metadata |-> PyNone]

\* The metadata dict of lines 146-152, as stored in a marker: disc_name and
\* dvd_id of the disc, title, year and imdb_id of its metadata (None without).
MetadataDict(disc) ==
    CASE disc.name # PyNone /\ disc.metadata = "arm" -> "m1"
      [] disc.name # PyNone /\ disc.metadata = "tmdb" -> "m2"
      [] disc.name # PyNone /\ disc.metadata = PyNone -> "m3"
      [] disc.name = PyNone /\ disc.metadata = "arm" -> "m4"
      [] OTHER -> "m5"

DefaultSettings ==
    [max_rips |-> DefaultMaxRips, max_encodes |-> DefaultMaxEncodes, eject |-> TRUE,
     encode_enabled |-> TRUE, delete_raw |-> TRUE]

\* The settings the daemon is run with: the defaults, or the defaults with one
\* of the limits or switches changed.
SettingsChoices ==
    {[DefaultSettings EXCEPT !.max_rips = n] : n \in 1..MaxLimit}
    \cup {[DefaultSettings EXCEPT !.max_encodes = n] : n \in 1..MaxLimit}
    \cup {[DefaultSettings EXCEPT !.eject = FALSE], [DefaultSettings EXCEPT !.delete_raw = FALSE]}

\* No process is alive and process_disc was never called.
\* process_queue has ended no encode yet.
\* An output path of FileNamer, as its parts below output_dir; none yet.
NoPath == [root |-> PyNone, folder |-> PyNone, file |-> PyNone]

\* mkv_path.stem, the JobInfo.name of a media file, as a string.
StemName(n) == "title_" \o ToString(n)

\* FileNamer.get_output_path without a codec string: below "Unknown" in a
\* folder named after the disc (its name, else the source file's stem) when
\* the disc has no metadata, else in the folder and under the file name made
\* of the metadata's title, year and imdb id.
GetOutputPath(disc, source_stem) ==
    IF disc.metadata = PyNone
    THEN [root |-> "Unknown",
          folder |-> IF disc.name # PyNone THEN disc.name ELSE source_stem,
          file |-> source_stem]
    ELSE [root |-> "Library", folder |-> disc.metadata, file |-> disc.metadata]

\* process_queue, lines 516-520: Disc(name=job_info.name); of the marker's
\* metadata only the dvd_id is copied, and disc.metadata stays None.
ReconstructDisc(name) == [name |-> name, metadata |-> PyNone]

NoneDone == [file |-> 0, outcome |-> PyNone, output |-> NoPath]

QueueIdle ==
    /\ cfg = DefaultSettings
    /\ daemon = "down" /\ runs = 0
    /\ ripSem = DefaultMaxRips /\ encSem = DefaultMaxEncodes
    /\ qRunning = FALSE /\ qPc = "off" /\ qFile = 0 /\ qDone = NoneDone
    /\ qStopped = FALSE
    /\ dPc = [d \in Discs |-> "idle"]
    /\ dInline = [d \in Discs |-> FALSE]
    /\ dJob = [d \in Discs |-> NewJob]
    /\ dSel = [d \in Discs |-> 0]
    /\ dIdx = [d \in Discs |-> 0]
    /\ dFiles = [d \in Discs |-> <<>>]
    /\ dExc = [d \in Discs |-> PyNone]
    /\ dEjected = [d \in Discs |-> FALSE]
    /\ dDisc = [d \in Discs |-> NewDisc]
    /\ nextPath = 1

\* ---------------------------------------------------------- title selector
\* The TitleSelector built from the Settings defaults.
DefaultSelector ==
    [min_movie_duration |-> 600, min_tv_duration |-> 300, max_titles |-> 50]

\* A Title: the fields the selector reads.
NewTitle(index, duration, size_bytes, segment_count) ==
    [index |-> index, duration |-> duration, size_bytes |-> size_bytes,
     segment_count |-> segment_count]

\* [t for t in titles if ...]
RECURSIVE Filter(_, _)
Filter(titles, keep) ==
    IF titles = <<>> THEN <<>>
    ELSE (IF keep[Head(titles)] THEN <<Head(titles)>> ELSE <<>>) \o Filter(Tail(titles), keep)

Where(titles, lo, hi) ==
    Filter(titles, [t \in {titles[i] : i \in 1..Len(titles)} |->
                      lo <= t.duration /\ t.duration < hi])

\* Longer than any title.
NoLimit == 1000000

\* list.sort / sorted are stable: a title goes behind the titles already
\* placed whose key is not greater (not less, with reverse=True).
Before(order, a, b) ==
    CASE order = "duration" -> a.duration <= b.duration
      [] order = "duration_reverse" -> a.duration >= b.duration
      [] order = "index" -> a.index <= b.index

RECURSIVE InsertSorted(_, _, _)
InsertSorted(order, sorted, t) ==
    IF sorted = <<>> THEN <<t>>
    ELSE IF Before(order, Head(sorted), t)
    THEN <<Head(sorted)>> \o InsertSorted(order, Tail(sorted), t)
    ELSE <<t>> \o sorted

RECURSIVE SortTitles(_, _)
SortTitles(order, titles) ==
    IF titles = <<>> THEN <<>>
    ELSE InsertSorted(order, SortTitles(order, SubSeq(titles, 1, Len(titles) - 1)),
                      titles[Len(titles)])

\* group_by_duration, title.py lines 101-128: over the titles sorted by duration, a
\* title joins the current group while it is within the tolerance of the
\* group's first title. Returns the sizes of the groups, in order.
RECURSIVE GroupSizes(_, _, _, _)
GroupSizes(sorted_titles, first, size, tolerance_seconds) ==
    IF sorted_titles = <<>> THEN <<size>>
    ELSE IF Head(sorted_titles).duration - first.duration <= tolerance_seconds
    THEN GroupSizes(Tail(sorted_titles), first, size + 1, tolerance_seconds)
    ELSE <<size>> \o GroupSizes(Tail(sorted_titles), Head(sorted_titles), 1, tolerance_seconds)

\* len(max(group_by_duration(titles, tolerance), key=len)), titles not empty.
LargestGroup(titles, tolerance_seconds) ==
    LET sorted_titles == SortTitles("duration", titles)
        sizes == GroupSizes(Tail(sorted_titles), Head(sorted_titles), 1, tolerance_seconds)
    IN  CHOOSE n \in {sizes[i] : i \in 1..Len(sizes)} :
            \A i \in 1..Len(sizes) : sizes[i] <= n

\* classify_disc, lines 51-96.
ClassifyDisc(titles) ==
    LET meaningful == Where(titles, 300, NoLimit)
        long_titles == Where(meaningful, 3600, NoLimit)
        medium_titles == Where(meaningful, 1200, 3600)
        short_titles == Where(meaningful, 300, 1200)
    IN
    IF titles = <<>> THEN "unknown"
    ELSE IF meaningful = <<>> THEN "unknown"
    ELSE IF Len(meaningful) = 1 /\ meaningful[1].duration >= 3600 THEN "movie"
    ELSE IF Len(long_titles) >= 1 /\ Len(medium_titles) <= 2 THEN "movie"
    ELSE IF Len(medium_titles) >= 3 /\ LargestGroup(medium_titles, 300) >= 4
    THEN "tv_season"
    ELSE IF Len(medium_titles) >= 3 /\ LargestGroup(medium_titles, 300) >= 2
    THEN "tv_series"
    ELSE IF Len(short_titles) >= 4 /\ LargestGroup(short_titles, 180) >= 4 THEN "tv_series"
    ELSE IF long_titles # <<>> /\ medium_titles # <<>> THEN "mixed"
    ELSE "unknown"

RECURSIVE SumDurations(_)
SumDurations(titles) ==
    IF titles = <<>> THEN 0 ELSE Head(titles).duration + SumDurations(Tail(titles))

Abs(n) == IF n < 0 THEN -n ELSE n

\* is_likely_play_all, title.py lines 65-98. (The tolerance is sum * 0.05; the
\* comparison is made here in whole seconds times 20.)
IsLikelyPlayAll(title, other_titles) ==
    LET shorter == Filter(other_titles,
                          [t \in {other_titles[i] : i \in 1..Len(other_titles)} |->
                             t.duration < title.duration /\ t.index # title.index])
    IN
    IF other_titles = <<>> THEN FALSE
    ELSE IF Len(shorter) < 2 THEN FALSE
    ELSE IF 20 * Abs(title.duration - SumDurations(shorter)) <= SumDurations(shorter) THEN TRUE
    ELSE title.segment_count > 1 /\ title.segment_count = Len(shorter)

\* _filter_play_all, lines 163-181.
FilterPlayAll(titles) ==
    Filter(titles, [t \in {titles[i] : i \in 1..Len(titles)} |->
                      ~IsLikelyPlayAll(t, Filter(titles,
                          [u \in {titles[i] : i \in 1..Len(titles)} |-> u.index # t.index]))])

\* _filter_duplicates, lines 183-209: the first title of each
\* (duration, size_bytes) pair is kept.
RECURSIVE FilterDuplicates(_, _)
FilterDuplicates(titles, seen) ==
    IF titles = <<>> THEN <<>>
    ELSE IF <<Head(titles).duration, Head(titles).size_bytes>> \in seen
    THEN FilterDuplicates(Tail(titles), seen)
    ELSE <<Head(titles)>>
         \o FilterDuplicates(Tail(titles),
                             seen \cup {<<Head(titles).duration, Head(titles).size_bytes>>})

\* select_titles, lines 119-125: the minimum duration in force.
MinDur(sel, titles, min_duration) ==
    IF min_duration # <<>> THEN min_duration[1]
    ELSE IF ClassifyDisc(titles) \in {"tv_series", "tv_season"} THEN sel.min_tv_duration
    ELSE sel.min_movie_duration

\* A duration filter that drops titles of exactly the minimum duration.
LongerThan(titles, min_dur) == Where(titles, min_dur + 1, NoLimit)

\* select_titles, line 128.
AtLeast(titles, min_dur) == Where(titles, min_dur, NoLimit)

\* select_titles, lines 141-151: the maximum title limit.
LimitTitles(sel, classification, candidates) ==
    IF Len(candidates) > sel.max_titles
    THEN SubSeq(IF classification = "movie" THEN SortTitles("duration_reverse", candidates)
                ELSE candidates,
                1, sel.max_titles)
    ELSE candidates

\* select_titles, lines 98-161.
SelectTitles(sel, titles, min_duration) ==
    LET classification == ClassifyDisc(titles)
        candidates == AtLeast(titles, MinDur(sel, titles, min_duration))
        episodes == IF classification \in {"tv_series", "tv_season"} THEN FilterPlayAll(candidates)
                    ELSE candidates
    IN
    IF titles = <<>> THEN <<>>
    ELSE IF candidates = <<>> THEN <<>>
    ELSE SortTitles("index", LimitTitles(sel, classification, FilterDuplicates(episodes, {})))

\* No TitleSelector method has been called.
SelectorIdle ==
    /\ selector = DefaultSelector
    /\ discTitles = <<>>
    /\ selOp = "init" /\ selArg = <<>> /\ selClass = PyNone /\ selected = <<>>

\* ----------------------------------------------------- marker-store actions
NoRet == [count |-> 0, ok |-> FALSE]

NoTransition ==
    [pc |-> "idle", f |-> 0, status |-> PyNone, metadata |-> PyNone, error |-> PyNone]

CreateMarker(f, status, metadata, error) ==
    /\ clock < MaxClock
    /\ store' = CreateMarkerIn(store, f, status, metadata, error, clock)
    /\ clock' = clock + 1
    /\ op' = "create_marker" /\ opFile' = f /\ opStatus' = status
    /\ ret' = [count |-> 0, ok |-> TRUE]
    /\ UNCHANGED <<mkv, dirs, parent, stem>>
    /\ UNCHANGED <<watcherVars, queueVars, selectorVars, pending>>

UpdateStatus(f, new_status, error) ==
    /\ clock < MaxClock
    /\ store' = UpdateStatusIn(store, f, new_status, error, clock)
    /\ clock' = IF UpdateStatusRet(store, f) THEN clock + 1 ELSE clock
    /\ op' = "update_status" /\ opFile' = f /\ opStatus' = new_status
    /\ ret' = [count |-> 0, ok |-> UpdateStatusRet(store, f)]
    /\ UNCHANGED <<mkv, dirs, parent, stem>>
    /\ UNCHANGED <<watcherVars, queueVars, selectorVars, pending>>

RemoveMarkers(f) ==
    /\ store' = RemoveMarkersIn(store, f)
    /\ op' = "remove_markers" /\ opFile' = f /\ opStatus' = PyNone
    /\ ret' = NoRet
    /\ UNCHANGED <<mkv, dirs, parent, stem, clock>>
    /\ UNCHANGED <<watcherVars, queueVars, selectorVars, pending>>

RecoverInterrupted ==
    /\ clock + Cardinality(ListedFiles(store, mkv, "transcoding")) <= MaxClock
    /\ store' = RecoverResult(store, mkv, clock).store
    /\ clock' = RecoverResult(store, mkv, clock).clock
    /\ op' = "recover_interrupted" /\ opFile' = 0 /\ opStatus' = PyNone
    /\ ret' = [count |-> RecoverResult(store, mkv, clock).count, ok |-> TRUE]
    /\ UNCHANGED <<mkv, dirs, parent, stem>>
    /\ UNCHANGED <<watcherVars, queueVars, selectorVars, pending>>

RetryAllFailed ==
    /\ clock + Cardinality(ListedFiles(store, mkv, "failed")) <= MaxClock
    /\ \E r \in {RetryAllResult(store, mkv, clock)} :
        /\ store' = r.store /\ clock' = r.clock
        /\ ret' = [count |-> r.count, ok |-> TRUE]
    /\ op' = "retry_all_failed" /\ opFile' = 0 /\ opStatus' = PyNone
    /\ UNCHANGED <<mkv, dirs, parent, stem>>
    /\ UNCHANGED <<watcherVars, queueVars, selectorVars, pending>>

\* The job names a caller can ask for.
Names == Files

RetryJob(name) ==
    /\ clock < MaxClock
    /\ \E r \in {RetryJobResult(store, mkv, stem, name, clock)} :
        /\ store' = r.store /\ clock' = r.clock
        /\ ret' = [count |-> 0, ok |-> r.ok]
    /\ op' = "retry_job" /\ opFile' = 0 /\ opStatus' = PyNone
    /\ UNCHANGED <<mkv, dirs, parent, stem>>
    /\ UNCHANGED <<watcherVars, queueVars, selectorVars, pending>>

\* list_jobs(status_filter) is called.
ListJobsCall(status_filter) ==
    /\ op' = "list_jobs" /\ opFile' = 0 /\ opStatus' = status_filter
    /\ ret' = IF ListJobsRaises(store, mkv, status_filter) THEN NoRet
              ELSE [count |-> Len(ListJobs(store, mkv, status_filter)), ok |-> TRUE]
    /\ UNCHANGED <<store, mkv, dirs, parent, stem, clock>>
    /\ UNCHANGED <<watcherVars, queueVars, selectorVars, pending>>

\* The content of a marker file is damaged (a cut-off write, a disk error, an
\* edit); `touched` says whether that set its modification time.
DamageMarker(f, content, touched) ==
    /\ clock < MaxClock
    /\ GetStatus(store, f) # PyNone
    /\ content # "record"
    /\ store' = [store EXCEPT ![f][GetStatus(store, f)] =
                    [@ EXCEPT !.content = content,
                              !.mtime = IF touched THEN clock ELSE @]]
    /\ clock' = IF touched THEN clock + 1 ELSE clock
    /\ op' = "damage" /\ opFile' = f /\ opStatus' = PyNone
    /\ ret' = NoRet
    /\ UNCHANGED <<mkv, dirs, parent, stem>>
    /\ UNCHANGED <<watcherVars, queueVars, selectorVars, pending>>

\* A directory the program can have left behind: every media file exists and
\* has no marker or one marker, written at distinct times. The files are in
\* one directory under different names, or each in a directory of its own
\* under the name MakeMKV gives to a disc's first title.
InitMarkers ==
    /\ \E order \in [Files -> Files] :
        /\ \A f, g \in Files : order[f] = order[g] => f = g
        /\ \E st \in [Files -> Statuses \cup {PyNone}] :
           \E md \in [Files -> {PyNone, "m1"}] :
             store = [f \in Files |-> [s \in Statuses |->
                        IF st[f] = s
                        THEN MarkerData(md[f], IF s = "failed" THEN "e1" ELSE PyNone, order[f])
                        ELSE NoMarker]]
    /\ mkv = [f \in Files |-> TRUE]
    /\ \E shared \in BOOLEAN :
        /\ parent = [f \in Files |-> IF shared THEN f ELSE 0]
        /\ stem = [f \in Files |-> IF shared THEN 1 ELSE f]
        /\ dirs = {parent[f] : f \in Files}
    /\ clock = NumFiles + 1
    /\ op = "init" /\ opFile = 0 /\ opStatus = PyNone /\ ret = NoRet
    /\ WatcherIdle
    /\ QueueIdle
    /\ SelectorIdle
    /\ pending = NoTransition

NextMarkers ==
    \/ \E f \in Files, s \in Statuses, m \in MetadataArgs, e \in ErrorArgs :
          CreateMarker(f, s, m, e)
    \/ \E f \in Files, s \in Statuses, e \in ErrorArgs : UpdateStatus(f, s, e)
    \/ \E f \in Files : RemoveMarkers(f)
    \/ RecoverInterrupted
    \/ RetryAllFailed
    \/ \E name \in Names : RetryJob(name)

\* create_marker up to and including line 86, called directly or at the end
\* of update_status (which returns before it for a file without marker, and
\* passes on the metadata it read): the old markers are unlinked.
MarkersRemoved(f, status, metadata, error, via_update) ==
    /\ pending.pc = "idle"
    /\ clock < MaxClock
    /\ via_update => GetStatus(store, f) # PyNone
    /\ store' = RemoveMarkersIn(store, f)
    /\ pending' = [pc |-> "removed", f |-> f, status |-> status, error |-> error,
                   metadata |-> IF via_update THEN store[f][GetStatus(store, f)].metadata
                                ELSE metadata]
    /\ op' = IF via_update THEN "update_status" ELSE "create_marker"
    /\ opFile' = f /\ opStatus' = status /\ ret' = NoRet
    /\ UNCHANGED <<mkv, dirs, parent, stem, clock>>
    /\ UNCHANGED <<watcherVars, queueVars, selectorVars>>

\* create_marker, lines 88-106: the new marker is written.
MarkerWritten ==
    /\ pending.pc = "removed"
    /\ store' = [store EXCEPT ![pending.f][pending.status] =
                    MarkerData(pending.metadata, pending.error, clock)]
    /\ clock' = clock + 1
    /\ pending' = NoTransition
    /\ ret' = [count |-> 0, ok |-> TRUE]
    /\ UNCHANGED <<mkv, dirs, parent, stem, op, opFile, opStatus>>
    /\ UNCHANGED <<watcherVars, queueVars, selectorVars>>

\* The process dies between the two steps and is started again.
DiesInTransition ==
    /\ pending.pc = "removed"
    /\ pending' = NoTransition
    /\ op' = "init" /\ opFile' = 0 /\ opStatus' = PyNone /\ ret' = NoRet
    /\ UNCHANGED <<store, mkv, dirs, parent, stem, clock>>
    /\ UNCHANGED <<watcherVars, queueVars, selectorVars>>

\* Status transitions as the file system goes through them.
NextTransition ==
    \/ \E f \in Files, s \in Statuses, m \in MetadataArgs, e \in ErrorArgs :
          \E via_update \in BOOLEAN : MarkersRemoved(f, s, m, e, via_update)
    \/ MarkerWritten
    \/ DiesInTransition

\* The marker store when marker files get damaged: the markers of a directory
\* are damaged and listed.
NextListing ==
    \/ \E f \in Files, content \in ContentKinds, touched \in BOOLEAN :
          DamageMarker(f, content, touched)
    \/ \E status_filter \in Statuses \cup {PyNone} : ListJobsCall(status_filter)

\* ---------------------------------------------------------- watcher steps
Methods == {"polling", "udev"}

\* poll(), lines 72 and 81: what a probe result means against the last state.
\* This variant reports an insertion on every probe that finds a disc.
PollEventNoDedup(has_disc, previous_state) ==
    IF has_disc THEN "insert"
    ELSE IF previous_state THEN "remove"
    ELSE "none"

PollEvent(has_disc, previous_state) ==
    IF has_disc /\ ~previous_state THEN "insert"
    ELSE IF ~has_disc /\ previous_state THEN "remove"
    ELSE "none"

\* Calling an `async def` function as poll() does, `on_insert(device)` with no
\* await: the call builds a coroutine object and returns; the body does not run.
CallAsyncWithoutAwait == "coroutine"

\* anyio.from_thread.run(func, ...): runs func on the event loop and waits for
\* it when called in an AnyIO worker thread, and raises RuntimeError in any
\* other thread (the event loop's own thread included).
FromThreadRun(in_worker_thread) == IF in_worker_thread THEN "ran" ELSE "RuntimeError"

\* UdevMonitor.monitor is a coroutine of the event loop: only monitor.poll()
\* is sent to a worker thread, and the callbacks are called from the coroutine.
MonitorCallsInWorkerThread == FALSE

\* The while / for conditions of poll(): the loop goes on while _running.
LoopGoesOn(running) == running

Inc(fn, d) == [fn EXCEPT ![d] = @ + 1]

\* start(): the method is selected, _running is set and the backend starts.
StartWatcher ==
    /\ wPc = "init"
    /\ watcherRunning' = TRUE
    /\ backendRunning' = TRUE
    /\ wPc' = IF wMethod = "udev" THEN "monitoring" ELSE "baseline"
    /\ wIdx' = 1
    /\ UNCHANGED <<wMethod, wOnce, discStates, present, toggles, probeLog, insertCalls,
                   removeCalls, insertRan, removeRan, unawaited, stopRequested>>
    /\ UNCHANGED <<markerVars, queueVars, selectorVars, pending>>

\* poll(), lines 51-54: the first probe of each device is the baseline.
PollBaseline ==
    /\ wPc = "baseline"
    /\ discStates' = [discStates EXCEPT ![wIdx] = present[wIdx]]
    /\ probeLog' = [probeLog EXCEPT ![wIdx] = Append(@, present[wIdx])]
    /\ IF wIdx < NumDevices
       THEN wIdx' = wIdx + 1 /\ wPc' = "baseline"
       ELSE wIdx' = 1 /\ wPc' = IF LoopGoesOn(backendRunning) THEN "sleeping" ELSE "done"
    /\ watcherRunning' = IF wIdx = NumDevices /\ ~LoopGoesOn(backendRunning)
                         THEN FALSE ELSE watcherRunning
    /\ UNCHANGED <<wMethod, wOnce, backendRunning, present, toggles, insertCalls,
                   removeCalls, insertRan, removeRan, unawaited, stopRequested>>
    /\ UNCHANGED <<markerVars, queueVars, selectorVars, pending>>

\* poll(), lines 63-67: the sleep ends and the for loop reaches its first device.
PollWake ==
    /\ wPc = "sleeping"
    /\ Len(probeLog[1]) < MaxProbes
    /\ IF LoopGoesOn(backendRunning)
       THEN wPc' = "probing" /\ wIdx' = 1 /\ UNCHANGED watcherRunning
       ELSE wPc' = "done" /\ wIdx' = 1 /\ watcherRunning' = FALSE
    /\ UNCHANGED <<wMethod, wOnce, backendRunning, discStates, present, toggles, probeLog,
                   insertCalls, removeCalls, insertRan, removeRan, unawaited, stopRequested>>
    /\ UNCHANGED <<markerVars, queueVars, selectorVars, pending>>

\* poll(), lines 69-85 and the loop conditions up to the next await: one probe,
\* the callback call it leads to, and the step to the next device or the sleep.
PollProbe ==
    /\ wPc = "probing"
    /\ LET d == wIdx
           has_disc == present[d]
           event == PollEvent(has_disc, discStates[d])
           called == IF event = "none" THEN "none" ELSE CallAsyncWithoutAwait
           returns == event = "insert" /\ wOnce
           goes_on == ~returns /\ LoopGoesOn(backendRunning)
       IN
       /\ probeLog' = [probeLog EXCEPT ![d] = Append(@, has_disc)]
       /\ discStates' = IF event = "none" THEN discStates
                        ELSE [discStates EXCEPT ![d] = has_disc]
       /\ insertCalls' = IF event = "insert" THEN Inc(insertCalls, d) ELSE insertCalls
       /\ removeCalls' = IF event = "remove" THEN Inc(removeCalls, d) ELSE removeCalls
       /\ unawaited' = IF called = "coroutine" THEN unawaited + 1 ELSE unawaited
       /\ backendRunning' = IF returns THEN FALSE ELSE backendRunning
       /\ IF goes_on /\ d < NumDevices
          THEN wPc' = "probing" /\ wIdx' = d + 1
          ELSE wIdx' = 1 /\ wPc' = IF goes_on THEN "sleeping" ELSE "done"
       /\ watcherRunning' = IF goes_on THEN watcherRunning ELSE FALSE
    /\ UNCHANGED <<wMethod, wOnce, present, toggles, insertRan, removeRan, stopRequested>>
    /\ UNCHANGED <<markerVars, queueVars, selectorVars, pending>>

\* monitor(), lines 79-116: monitor.poll() returns a notification (a timeout
\* returns None and only repeats the loop); it is filtered, and a change event of
\* a watched drive calls on_insert or on_remove, here the sync_on_insert /
\* sync_on_remove wrappers of start().
UdevNotification(device, action, has_media) ==
    /\ wPc = "monitoring"
    /\ LoopGoesOn(backendRunning)
    /\ action = "change"
    /\ device \in Devices
    /\ toggles < MaxToggles
    /\ toggles' = toggles + 1
    /\ present' = [present EXCEPT ![device] = has_media]
    /\ LET bridged == FromThreadRun(MonitorCallsInWorkerThread) IN
       /\ insertCalls' = IF has_media THEN Inc(insertCalls, device) ELSE insertCalls
       /\ removeCalls' = IF ~has_media THEN Inc(removeCalls, device) ELSE removeCalls
       /\ insertRan' = IF has_media /\ bridged = "ran"
                       THEN Inc(insertRan, device) ELSE insertRan
       /\ removeRan' = IF ~has_media /\ bridged = "ran"
                       THEN Inc(removeRan, device) ELSE removeRan
       /\ IF bridged = "RuntimeError"
          THEN wPc' = "raised" /\ backendRunning' = FALSE /\ watcherRunning' = FALSE
          ELSE IF has_media /\ wOnce
          THEN wPc' = "done" /\ backendRunning' = FALSE /\ watcherRunning' = FALSE
          ELSE UNCHANGED <<wPc, backendRunning, watcherRunning>>
    /\ UNCHANGED <<wMethod, wOnce, wIdx, discStates, probeLog, unawaited, stopRequested>>
    /\ UNCHANGED <<markerVars, queueVars, selectorVars, pending>>

\* monitor(), lines 84-96: a timeout, or a notification that is filtered out
\* (no device node, not an optical drive, not in the device list, not a change).
UdevIgnored ==
    /\ wPc = "monitoring"
    /\ toggles < MaxToggles
    /\ toggles' = toggles + 1
    /\ IF LoopGoesOn(backendRunning)
       THEN UNCHANGED <<wPc, watcherRunning>>
       ELSE wPc' = "done" /\ watcherRunning' = FALSE
    /\ UNCHANGED <<wMethod, wOnce, wIdx, backendRunning, discStates, present, probeLog,
                   insertCalls, removeCalls, insertRan, removeRan, unawaited, stopRequested>>
    /\ UNCHANGED <<markerVars, queueVars, selectorVars, pending>>

\* DiscWatcher.stop(), called by another task while start() runs.
StopWatcher ==
    /\ wPc \notin {"init", "done", "raised"}
    /\ ~stopRequested
    /\ watcherRunning' = FALSE
    /\ stopRequested' = TRUE
    /\ UNCHANGED <<wMethod, wOnce, wPc, wIdx, backendRunning, discStates, present, toggles,
                   probeLog, insertCalls, removeCalls, insertRan, removeRan, unawaited>>
    /\ UNCHANGED <<markerVars, queueVars, selectorVars, pending>>

\* A disc is put into a polled drive or taken out of it.
ToggleDisc(d) ==
    /\ wMethod = "polling"
    /\ wPc \notin {"done", "raised"}
    /\ toggles < MaxToggles
    /\ toggles' = toggles + 1
    /\ present' = [present EXCEPT ![d] = ~@]
    /\ UNCHANGED <<wMethod, wOnce, wPc, wIdx, watcherRunning, backendRunning, discStates,
                   probeLog, insertCalls, removeCalls, insertRan, removeRan, unawaited,
                   stopRequested>>
    /\ UNCHANGED <<markerVars, queueVars, selectorVars, pending>>

MarkersIdle ==
    /\ store = [f \in Files |-> [s \in Statuses |-> NoMarker]]
    /\ mkv = [f \in Files |-> FALSE]
    /\ dirs = {} /\ parent = [f \in Files |-> 0] /\ stem = [f \in Files |-> f]
    /\ clock = 1
    /\ op = "init" /\ opFile = 0 /\ opStatus = PyNone /\ ret = NoRet

InitWatcher ==
    /\ wMethod \in Methods
    /\ wOnce \in BOOLEAN
    /\ wPc = "init" /\ wIdx = 1
    /\ watcherRunning = FALSE /\ backendRunning = FALSE
    /\ discStates = [d \in Devices |-> FALSE]
    /\ present \in [Devices -> BOOLEAN]
    /\ toggles = 0
    /\ probeLog = [d \in Devices |-> <<>>]
    /\ insertCalls = [d \in Devices |-> 0]
    /\ removeCalls = [d \in Devices |-> 0]
    /\ insertRan = [d \in Devices |-> 0]
    /\ removeRan = [d \in Devices |-> 0]
    /\ unawaited = 0
    /\ stopRequested = FALSE
    /\ MarkersIdle
    /\ QueueIdle
    /\ SelectorIdle
    /\ pending = NoTransition

NextWatcher ==
    \/ StartWatcher
    \/ PollBaseline
    \/ PollWake
    \/ PollProbe
    \/ \E d \in Devices, has_media \in BOOLEAN : UdevNotification(d, "change", has_media)
    \/ UdevIgnored
    \/ StopWatcher
    \/ \E d \in Devices : ToggleDisc(d)

\* ------------------------------------------------------ queue manager steps
\* asyncio.Semaphore: acquire() goes through at once while a slot is free.
\* This variant never makes a caller wait.
SemFreeAlways(value) == TRUE

SemFree(value) == value > 0

\* `async with semaphore` leaves through __aexit__, which releases the slot
\* whether the body returned or raised. This variant leaks it on an exception.
ReleaseUnlessRaised(value, outcome) == IF outcome = "ok" THEN value + 1 ELSE value

ReleaseOnExit(value, outcome) == value + 1

Outcomes == {"ok", "raise"}

\* A Job.fail that records the error and leaves the status as it was.
JobFailKeepsStatus(job, message, stage) ==
    [job EXCEPT !.errors = Append(@, [message |-> message, stage |-> stage])]

\* Job.start / complete / fail.
JobStart(job) == [job EXCEPT !.status = "scanning"]
JobComplete(job) == [job EXCEPT !.status = "complete", !.completed_at = TRUE]
JobFail(job, message, stage) ==
    [job EXCEPT !.status = "failed",
                !.errors = Append(@, [message |-> message, stage |-> stage])]

\* An except clause that lets the exception out of process_disc.
ExceptReraise(job, e) == [pc |-> "raised", job |-> job]

\* process_disc, lines 177-183: the except clause fails the job with the
\* exception's message, and the call returns the job.
ExceptClause(job, e) == [pc |-> "returned", job |-> JobFail(job, e, "processing")]

\* _cleanup_raw_file: the raw file is unlinked and its markers are removed.
CleanupStore(st, f) == RemoveMarkersIn(st, f)
CleanupFiles(files, f) == [files EXCEPT ![f] = FALSE]

\* any(parent.iterdir()) is false: no media file and no marker is left in it.
DirEmpty(st, files, dir) ==
    \A g \in Files : parent[g] = dir => (~files[g] /\ GetStatus(st, g) = PyNone)

\* A cleanup that removes the parent directory without looking into it.
CleanupDirsAlways(ds, st, files, f) == ds \ {parent[f]}

\* _cleanup_raw_file, lines 485-489: the parent directory is removed if it
\* exists and is empty.
CleanupDirs(ds, st, files, f) ==
    IF parent[f] \in ds /\ DirEmpty(st, files, parent[f]) THEN ds \ {parent[f]} ELSE ds

\* An end of encode that leaves the file's marker and the raw file alone.
AfterEncodeKeepsMarker(st, files, f, outcome, now) ==
    [store |-> st, mkv |-> files, dirs |-> dirs]

\* What follows an encode that returned or raised (both loops): the marker
\* goes to "complete", with the raw-file cleanup if enabled, or to "failed".
AfterEncode(st, files, f, outcome, now) ==
    IF outcome = "ok"
    THEN LET done == UpdateStatusIn(st, f, "complete", PyNone, now) IN
         IF cfg.delete_raw
         THEN [store |-> CleanupStore(done, f), mkv |-> CleanupFiles(files, f),
               dirs |-> CleanupDirs(dirs, CleanupStore(done, f), CleanupFiles(files, f), f)]
         ELSE [store |-> done, mkv |-> files, dirs |-> dirs]
    ELSE [store |-> UpdateStatusIn(st, f, "failed", "e1", now), mkv |-> files, dirs |-> dirs]

\* update_status writes a marker, and reads the clock, only when one exists.
Tick(st, f, now) == IF UpdateStatusRet(st, f) THEN now + 1 ELSE now

\* process_queue from the top of its while loop to its next await: the loop
\* ends when _running is false, sleeps without a ready job, and else marks the
\* oldest ready job "transcoding" and enters the encode semaphore.
DrainTop(st, files, now, running, sem) ==
    LET jobs == ListJobs(st, files, "ready") IN
    IF ~running
    THEN [pc |-> "returned", file |-> 0, store |-> st, clock |-> now, sem |-> sem]
    ELSE IF jobs = <<>>
    THEN [pc |-> "sleeping", file |-> 0, store |-> st, clock |-> now, sem |-> sem]
    ELSE [pc |-> IF SemFree(sem) THEN "encoding" ELSE "enc_wait",
          file |-> Head(jobs),
          store |-> UpdateStatusIn(st, Head(jobs), "transcoding", PyNone, now),
          clock |-> now + 1,
          sem |-> IF SemFree(sem) THEN sem - 1 ELSE sem]

\* _encode_files from output file k to its next await: files that no longer
\* exist are skipped; the next one is marked "transcoding" and the encode
\* semaphore entered; after the last file the job is complete.
RECURSIVE InlineTop(_, _, _, _, _, _)
InlineTop(st, files, now, outs, k, sem) ==
    IF k > Len(outs)
    THEN [pc |-> "returned", idx |-> k, store |-> st, clock |-> now, sem |-> sem]
    ELSE IF ~files[outs[k]]
    THEN InlineTop(st, files, now, outs, k + 1, sem)
    ELSE [pc |-> IF SemFree(sem) THEN "encoding" ELSE "enc_wait",
          idx |-> k,
          store |-> UpdateStatusIn(st, outs[k], "transcoding", PyNone, now),
          clock |-> Tick(st, outs[k], now),
          sem |-> IF SemFree(sem) THEN sem - 1 ELSE sem]

\* A marker loop that stops after the first ripped file.
MarkReadyFirstOnly(st, outs, metadata, now) ==
    IF outs = <<>> THEN st
    ELSE CreateMarkerIn(st, Head(outs), "ready", metadata, PyNone, now)

\* process_disc, lines 145-153: a "ready" marker for each ripped file.
RECURSIVE MarkReady(_, _, _, _)
MarkReady(st, outs, metadata, now) ==
    IF outs = <<>> THEN st
    ELSE MarkReady(CreateMarkerIn(st, Head(outs), "ready", metadata, PyNone, now),
                   Tail(outs), metadata, now + 1)

\* _run_watch: a process starts, builds its QueueManager (fresh semaphores)
\* and schedules process_queue in the task group.
StartDaemon ==
    /\ daemon = "down"
    /\ runs < MaxRuns
    /\ runs' = runs + 1
    /\ daemon' = "up"
    /\ ripSem' = cfg.max_rips
    /\ encSem' = cfg.max_encodes
    /\ qRunning' = FALSE
    /\ qPc' = "scheduled" /\ qFile' = 0 /\ qDone' = NoneDone
    /\ qStopped' = FALSE
    /\ UNCHANGED <<dExc, dEjected>>
    /\ UNCHANGED <<cfg, nextPath, dPc, dInline, dJob, dSel, dIdx, dFiles>>
    /\ UNCHANGED markerVars
    /\ UNCHANGED <<watcherVars, selectorVars, pending>>
    /\ UNCHANGED dDisc

\* The process dies (killed, power loss): its tasks, its jobs and its
\* QueueManager are gone, the files and markers stay.
Crash ==
    /\ daemon = "up"
    /\ daemon' = "down"
    /\ qRunning' = FALSE
    /\ qPc' = "off" /\ qFile' = 0 /\ qDone' = NoneDone
    /\ qStopped' = FALSE
    /\ ripSem' = cfg.max_rips
    /\ encSem' = cfg.max_encodes
    /\ dPc' = [d \in Discs |-> IF dPc[d] = "idle" THEN "idle" ELSE "dead"]
    /\ dInline' = [d \in Discs |-> FALSE]
    /\ dJob' = [d \in Discs |-> NewJob]
    /\ dSel' = [d \in Discs |-> 0]
    /\ dIdx' = [d \in Discs |-> 0]
    /\ dFiles' = [d \in Discs |-> <<>>]
    /\ dExc' = [d \in Discs |-> PyNone]
    /\ dEjected' = [d \in Discs |-> FALSE]
    /\ dDisc' = [d \in Discs |-> NewDisc]
    /\ UNCHANGED <<cfg, nextPath, runs>>
    /\ UNCHANGED markerVars
    /\ UNCHANGED <<watcherVars, selectorVars, pending>>

\* process_queue starts: it sets _running and runs to its first await.
DrainStart ==
    /\ daemon = "up" /\ qPc = "scheduled"
    /\ qRunning' = TRUE
    /\ \E r \in {DrainTop(store, mkv, clock, TRUE, encSem)} :
       /\ qPc' = r.pc /\ qFile' = r.file /\ store' = r.store /\ clock' = r.clock
       /\ encSem' = r.sem
    /\ UNCHANGED <<op, opFile, opStatus, ret, dirs, parent, stem>>
    /\ UNCHANGED <<dExc, dEjected>>
    /\ UNCHANGED <<qDone, qStopped>>
    /\ UNCHANGED <<cfg, nextPath, daemon, runs, ripSem, dPc, dInline, dJob, dSel, dIdx, dFiles,
                   mkv>>
    /\ UNCHANGED <<watcherVars, selectorVars, pending>>
    /\ UNCHANGED dDisc

\* process_queue, the sleep of line 504 ends.
DrainWake ==
    /\ daemon = "up" /\ qPc = "sleeping"
    /\ \E r \in {DrainTop(store, mkv, clock, qRunning, encSem)} :
       /\ r.pc # "sleeping"
       /\ qPc' = r.pc /\ qFile' = r.file /\ store' = r.store /\ clock' = r.clock
       /\ encSem' = r.sem
    /\ UNCHANGED <<op, opFile, opStatus, ret, dirs, parent, stem>>
    /\ UNCHANGED <<dExc, dEjected>>
    /\ UNCHANGED <<qDone, qStopped>>
    /\ UNCHANGED <<cfg, nextPath, daemon, runs, ripSem, qRunning, dPc, dInline, dJob, dSel, dIdx,
                   dFiles, mkv>>
    /\ UNCHANGED <<watcherVars, selectorVars, pending>>
    /\ UNCHANGED dDisc

\* process_queue gets the encode slot it waited for.
DrainAcquire ==
    /\ daemon = "up" /\ qPc = "enc_wait"
    /\ SemFree(encSem)
    /\ encSem' = encSem - 1
    /\ qPc' = "encoding"
    /\ UNCHANGED <<dExc, dEjected>>
    /\ UNCHANGED <<qDone, qStopped>>
    /\ UNCHANGED <<cfg, nextPath, daemon, runs, ripSem, qRunning, qFile, dPc, dInline, dJob, dSel,
                   dIdx, dFiles>>
    /\ UNCHANGED <<markerVars, watcherVars, selectorVars, pending>>
    /\ UNCHANGED dDisc

\* A drain loop that an encode failure takes out of its while loop.
LoopEndsOnFailure(running, outcome) == running /\ outcome = "ok"

\* process_queue, lines 546-561: a failure of the encode is caught inside the
\* loop body, so the while condition of line 499 is read again whatever the
\* outcome.
LoopContinues(running, outcome) == running

\* process_queue, lines 533-561: handbrake.encode returns or raises (it raises
\* when the input file is missing), the slot is released, the marker updated,
\* and the loop runs on to its next await.
DrainEncodeEnds(outcome) ==
    /\ daemon = "up" /\ qPc = "encoding"
    /\ outcome = "ok" => mkv[qFile]
    /\ qDone' = [file |-> qFile, outcome |-> outcome,
                 output |-> GetOutputPath(ReconstructDisc(StemName(stem[qFile])),
                                          StemName(stem[qFile]))]
    /\ UNCHANGED qStopped
    /\ \E a \in {AfterEncode(store, mkv, qFile, outcome, clock)} :
       \E r \in {DrainTop(a.store, a.mkv, Tick(store, qFile, clock),
                          LoopContinues(qRunning, outcome), ReleaseOnExit(encSem, outcome))} :
       /\ qPc' = r.pc /\ qFile' = r.file /\ store' = r.store /\ clock' = r.clock
       /\ encSem' = r.sem
       /\ mkv' = a.mkv /\ dirs' = a.dirs
    /\ UNCHANGED <<op, opFile, opStatus, ret, parent, stem>>
    /\ UNCHANGED <<dExc, dEjected>>
    /\ UNCHANGED <<cfg, nextPath, daemon, runs, ripSem, qRunning, dPc, dInline, dJob, dSel, dIdx,
                   dFiles>>
    /\ UNCHANGED <<watcherVars, selectorVars, pending>>
    /\ UNCHANGED dDisc

\* QueueManager.stop().
StopQueue ==
    /\ daemon = "up" /\ qRunning
    /\ qRunning' = FALSE
    /\ qStopped' = TRUE
    /\ UNCHANGED <<dExc, dEjected>>
    /\ UNCHANGED qDone
    /\ UNCHANGED <<cfg, nextPath, daemon, runs, ripSem, encSem, qPc, qFile, dPc, dInline, dJob,
                   dSel, dIdx, dFiles>>
    /\ UNCHANGED <<markerVars, watcherVars, selectorVars, pending>>
    /\ UNCHANGED dDisc

\* QueueManager.stop() is called before the scheduled process_queue has run
\* its first line: _running, still False, is set to False.
StopBeforeStart ==
    /\ daemon = "up" /\ qPc = "scheduled" /\ ~qStopped
    /\ qRunning' = FALSE
    /\ qStopped' = TRUE
    /\ UNCHANGED <<dExc, dEjected>>
    /\ UNCHANGED qDone
    /\ UNCHANGED <<cfg, nextPath, daemon, runs, ripSem, encSem, qPc, qFile, dPc, dInline, dJob,
                   dSel, dIdx, dFiles>>
    /\ UNCHANGED <<markerVars, watcherVars, selectorVars, pending>>
    /\ UNCHANGED dDisc

\* ----------------------------------------------------------- process_disc
Set(fn, d, v) == [fn EXCEPT ![d] = v]

\* The `encode` argument of a call that has returned is gone with its frame.
FrameOf(inline, d, pcs) == IF pcs[d] = "returned" THEN Set(inline, d, FALSE) ELSE inline

\* process_disc(device, encode) is called: the job is created and started,
\* and scan_disc awaited. (The calls are numbered in the order they are made.)
CallProcessDisc(d, inline) ==
    /\ daemon = "up" /\ dPc[d] = "idle"
    /\ \A e \in Discs : e < d => dPc[e] # "idle"
    /\ dPc' = Set(dPc, d, "scanning")
    /\ dInline' = Set(dInline, d, inline)
    /\ dJob' = Set(dJob, d, JobStart(NewJob))
    /\ dDisc' = Set(dDisc, d, NewDisc)
    /\ dSel' = Set(dSel, d, 0) /\ dIdx' = Set(dIdx, d, 0) /\ dFiles' = Set(dFiles, d, <<>>)
    /\ UNCHANGED <<dExc, dEjected>>
    /\ UNCHANGED <<qDone, qStopped>>
    /\ UNCHANGED <<cfg, nextPath, daemon, runs, ripSem, encSem, qRunning, qPc, qFile>>
    /\ UNCHANGED <<markerVars, watcherVars, selectorVars, pending>>

\* scan_disc returns the disc, with or without a name, or raises (caught at
\* line 177).
ScanEnds(d, outcome, named) ==
    /\ daemon = "up" /\ dPc[d] = "scanning"
    /\ outcome = "raise" => named
    /\ IF outcome = "ok"
       THEN /\ dPc' = Set(dPc, d, "metadata")
            /\ dDisc' = Set(dDisc, d, [NewDisc EXCEPT !.name = IF named THEN "DISC" ELSE PyNone])
            /\ UNCHANGED <<dJob, dExc>>
       ELSE LET h == ExceptClause(dJob[d], "scan failed") IN
            /\ dPc' = Set(dPc, d, h.pc)
            /\ dJob' = Set(dJob, d, h.job)
            /\ dExc' = Set(dExc, d, "scan failed")
            /\ UNCHANGED dDisc
    /\ UNCHANGED dEjected
    /\ UNCHANGED <<qDone, qStopped>>
    /\ UNCHANGED <<cfg, nextPath, daemon, runs, ripSem, encSem, qRunning, qPc, qFile, dSel, dIdx,
                   dFiles>>
    /\ UNCHANGED <<markerVars, watcherVars, selectorVars, pending>>
    /\ dInline' = FrameOf(dInline, d, dPc')

\* What a metadata service answers: metadata, nothing, or an exception.
Lookups == {"found", "not_found", "raise"}

\* _lookup_metadata, lines 198-227: the DVD-ID lookup finds nothing or raises
\* (logged, line 218) and the disc has a name: the TMDB search is awaited.
LookupMisses(d, lookup) ==
    /\ daemon = "up" /\ dPc[d] = "metadata"
    /\ lookup # "found"
    /\ dDisc[d].name # PyNone
    /\ dPc' = Set(dPc, d, "search")
    /\ UNCHANGED <<cfg, daemon, runs, ripSem, encSem, qRunning, qPc, qFile, qDone, qStopped,
                   dInline, dJob, dSel, dIdx, dFiles, dExc, dEjected, dDisc, nextPath>>
    /\ UNCHANGED <<markerVars, watcherVars, selectorVars, pending>>

\* A lookup that keeps only what the TMDB search found.
MetadataFromSearchOnly(pc, lookup) ==
    IF lookup = "found" /\ pc = "search" THEN "tmdb" ELSE PyNone

\* The metadata _lookup_metadata leaves in disc.metadata when its last await
\* gave `lookup`: that of the service asked last, if it found any.
MetadataKept(pc, lookup) ==
    IF lookup # "found" THEN PyNone ELSE IF pc = "metadata" THEN "arm" ELSE "tmdb"

\* _is_already_processed: false without metadata (line 433), else whether a
\* folder named after the metadata, under raw_dir or output_dir/Movies, holds
\* *.mkv files. `media` says whether the folders the disc's name or metadata
\* lead to hold such files.
IsAlreadyProcessed(disc, media) == disc.metadata # PyNone /\ media

\* _lookup_metadata returns after its last await, the DVD-ID lookup or the
\* TMDB search (line 216, 239 or 244; the failures are swallowed); lines
\* 93-130 and the entry of _rip_titles follow without an await: the disc's
\* directory is made, then the already-processed check, the title selection
\* (which may raise, caught at line 177), and the rip semaphore.
MetadataEnds(d, lookup, outcome, media, nsel) ==
    /\ daemon = "up" /\ dPc[d] \in {"metadata", "search"}
    /\ lookup # "found" => (dPc[d] = "search" \/ dDisc[d].name = PyNone)
    /\ dDisc' = Set(dDisc, d, [dDisc[d] EXCEPT !.metadata = MetadataKept(dPc[d], lookup)])
    /\ outcome = "raise" => (~IsAlreadyProcessed(dDisc'[d], media) /\ nsel = 0)
    /\ dirs' = dirs \cup {d}
    /\ dSel' = Set(dSel, d, IF IsAlreadyProcessed(dDisc'[d], media) THEN 0 ELSE nsel)
    /\ IF outcome = "raise"
       THEN LET h == ExceptClause(dJob[d], "select failed") IN
            /\ dPc' = Set(dPc, d, h.pc)
            /\ dJob' = Set(dJob, d, h.job)
            /\ dExc' = Set(dExc, d, "select failed")
            /\ UNCHANGED <<ripSem, dIdx>>
       ELSE IF IsAlreadyProcessed(dDisc'[d], media)
       THEN /\ dPc' = Set(dPc, d, "returned")
            /\ dJob' = Set(dJob, d, JobComplete(dJob[d]))
            /\ UNCHANGED <<ripSem, dIdx, dExc>>
       ELSE IF nsel = 0
       THEN /\ dPc' = Set(dPc, d, "returned")
            /\ dJob' = Set(dJob, d, JobFail(dJob[d], "No titles selected", "selection"))
            /\ UNCHANGED <<ripSem, dIdx, dExc>>
       ELSE /\ dJob' = Set(dJob, d, [dJob[d] EXCEPT !.status = "ripping"])
            /\ UNCHANGED dExc
            /\ IF SemFree(ripSem)
               THEN /\ ripSem' = ripSem - 1
                    /\ dPc' = Set(dPc, d, "ripping")
                    /\ dIdx' = Set(dIdx, d, 1)
               ELSE /\ dPc' = Set(dPc, d, "wait_rip")
                    /\ UNCHANGED <<ripSem, dIdx>>
    /\ UNCHANGED dEjected
    /\ UNCHANGED <<qDone, qStopped>>
    /\ UNCHANGED <<cfg, nextPath, daemon, runs, encSem, qRunning, qPc, qFile, dFiles>>
    /\ UNCHANGED <<store, mkv, parent, stem, clock, op, opFile, opStatus, ret>>
    /\ UNCHANGED <<watcherVars, selectorVars, pending>>
    /\ dInline' = FrameOf(dInline, d, dPc')

\* _rip_titles gets the rip slot it waited for and starts the first title.
RipAcquire(d) ==
    /\ daemon = "up" /\ dPc[d] = "wait_rip"
    /\ SemFree(ripSem)
    /\ ripSem' = ripSem - 1
    /\ dPc' = Set(dPc, d, "ripping")
    /\ dIdx' = Set(dIdx, d, 1)
    /\ UNCHANGED <<dExc, dEjected>>
    /\ UNCHANGED <<qDone, qStopped>>
    /\ UNCHANGED <<cfg, nextPath, daemon, runs, encSem, qRunning, qPc, qFile, dInline, dJob, dSel,
                   dFiles>>
    /\ UNCHANGED <<markerVars, watcherVars, selectorVars, pending>>
    /\ UNCHANGED dDisc

\* process_disc after the rip and the eject, lines 165-170, to its next await.
AfterEject(d, st, now, outs, job) ==
    IF dInline[d] /\ cfg.encode_enabled
    THEN LET r == InlineTop(st, mkv', now, outs, 1, encSem) IN
         [pc |-> r.pc, idx |-> r.idx, store |-> r.store, clock |-> r.clock, sem |-> r.sem,
          job |-> IF r.pc = "returned" THEN JobComplete(job)
                  ELSE [job EXCEPT !.status = "encoding"]]
    ELSE [pc |-> "returned", idx |-> 0, store |-> st, clock |-> now, sem |-> encSem,
          job |-> JobComplete(job)]

\* A rip loop in which a failed title discards the files ripped before it.
RippedFilesLostOnFailure(ripped_files, output_file, outcome) ==
    IF outcome = "ok" THEN Append(ripped_files, output_file) ELSE <<>>

\* _rip_titles, lines 279-292: the file of a title that was ripped is
\* appended; a failure is logged and leaves the list as it is.
RippedFiles(ripped_files, output_file, outcome) ==
    IF outcome = "ok" THEN Append(ripped_files, output_file) ELSE ripped_files

\* rip_title of title dIdx[d] returns a new file or raises (logged, line 287).
\* After the last title the rip slot is released and lines 132-157 follow:
\* no file fails the job; else the files get their "ready" markers
\* (create_marker raises after nmark of them, caught at line 177, when nmark
\* is less than their number) and the disc is ejected, if enabled.
RipTitleEnds(d, outcome, nmark) ==
    /\ daemon = "up" /\ dPc[d] = "ripping"
    /\ outcome = "ok" => nextPath \in Files
    /\ nextPath' = IF outcome = "ok" THEN nextPath + 1 ELSE nextPath
    /\ LET f == nextPath
           outs == RippedFiles(dFiles[d], f, outcome)
           now == clock + Len(outs)
           ripped == [dJob[d] EXCEPT !.status = "ripped"]
       IN
       /\ mkv' = IF outcome = "ok" THEN [mkv EXCEPT ![f] = TRUE] ELSE mkv
       /\ parent' = IF outcome = "ok" THEN [parent EXCEPT ![f] = d] ELSE parent
       /\ dFiles' = Set(dFiles, d, outs)
       /\ nmark <= Len(outs)
       /\ IF dIdx[d] < dSel[d]
          THEN /\ nmark = Len(outs)
               /\ dIdx' = Set(dIdx, d, dIdx[d] + 1)
               /\ UNCHANGED <<dPc, dJob, dExc, ripSem, encSem, store, clock>>
          ELSE /\ ripSem' = ReleaseOnExit(ripSem, "ok")
               /\ IF outs = <<>>
                  THEN /\ dPc' = Set(dPc, d, "returned")
                       /\ dJob' = Set(dJob, d, JobFail(dJob[d], "No files ripped", "ripping"))
                       /\ dIdx' = Set(dIdx, d, 0)
                       /\ UNCHANGED <<dExc, encSem, store, clock>>
                  ELSE IF nmark < Len(outs)
                  THEN LET h == ExceptClause(ripped, "marker failed") IN
                       /\ dPc' = Set(dPc, d, h.pc)
                       /\ dJob' = Set(dJob, d, h.job)
                       /\ dExc' = Set(dExc, d, "marker failed")
                       /\ dIdx' = Set(dIdx, d, 0)
                       /\ store' = MarkReady(store, SubSeq(outs, 1, nmark),
                                              MetadataDict(dDisc[d]), clock)
                       /\ clock' = clock + nmark
                       /\ UNCHANGED encSem
                  ELSE IF cfg.eject
                  THEN /\ dPc' = Set(dPc, d, "ejecting")
                       /\ dJob' = Set(dJob, d, ripped)
                       /\ dIdx' = Set(dIdx, d, 0)
                       /\ store' = MarkReady(store, outs, MetadataDict(dDisc[d]), clock)
                       /\ clock' = now
                       /\ UNCHANGED <<dExc, encSem>>
                  ELSE LET r == AfterEject(d,
                                           MarkReady(store, outs, MetadataDict(dDisc[d]), clock),
                                           now, outs, ripped)
                       IN /\ dPc' = Set(dPc, d, r.pc)
                          /\ dJob' = Set(dJob, d, r.job)
                          /\ dIdx' = Set(dIdx, d, r.idx)
                          /\ store' = r.store /\ clock' = r.clock /\ encSem' = r.sem
                          /\ UNCHANGED dExc
    /\ UNCHANGED <<op, opFile, opStatus, ret, dirs, stem>>
    /\ UNCHANGED dEjected
    /\ UNCHANGED <<cfg, qDone, qStopped, daemon, runs, qRunning, qPc, qFile>>
    /\ UNCHANGED <<watcherVars, selectorVars, pending>>
    /\ dInline' = FrameOf(dInline, d, dPc')
    /\ dSel' = IF dIdx[d] < dSel[d] THEN dSel ELSE Set(dSel, d, 0)
    /\ UNCHANGED dDisc

\* _eject_disc returns (its failure is logged, never raised).
EjectEnds(d) ==
    /\ daemon = "up" /\ dPc[d] = "ejecting"
    /\ mkv' = mkv
    /\ LET r == AfterEject(d, store, clock, dFiles[d], dJob[d]) IN
       /\ dPc' = Set(dPc, d, r.pc)
       /\ dJob' = Set(dJob, d, r.job)
       /\ dIdx' = Set(dIdx, d, r.idx)
       /\ store' = r.store /\ clock' = r.clock /\ encSem' = r.sem
    /\ UNCHANGED <<op, opFile, opStatus, ret, dirs, parent, stem>>
    /\ dEjected' = Set(dEjected, d, TRUE)
    /\ UNCHANGED dExc
    /\ UNCHANGED <<qDone, qStopped>>
    /\ UNCHANGED <<cfg, nextPath, daemon, runs, ripSem, qRunning, qPc, qFile, dSel, dFiles>>
    /\ UNCHANGED <<watcherVars, selectorVars, pending>>
    /\ dInline' = FrameOf(dInline, d, dPc')
    /\ UNCHANGED dDisc

\* _encode_files gets the encode slot it waited for.
InlineAcquire(d) ==
    /\ daemon = "up" /\ dPc[d] = "enc_wait"
    /\ SemFree(encSem)
    /\ encSem' = encSem - 1
    /\ dPc' = Set(dPc, d, "encoding")
    /\ UNCHANGED <<dExc, dEjected>>
    /\ UNCHANGED <<qDone, qStopped>>
    /\ UNCHANGED <<cfg, nextPath, daemon, runs, ripSem, qRunning, qPc, qFile, dInline, dJob, dSel,
                   dIdx, dFiles>>
    /\ UNCHANGED <<markerVars, watcherVars, selectorVars, pending>>
    /\ UNCHANGED dDisc

\* _encode_files, lines 324-352: handbrake.encode of output file dIdx[d]
\* returns or raises, the slot is released, the marker updated, and the loop
\* runs on to the next file or to job.complete().
InlineEncodeEnds(d, outcome) ==
    /\ daemon = "up" /\ dPc[d] = "encoding"
    /\ outcome = "ok" => mkv[dFiles[d][dIdx[d]]]
    /\ \E f \in {dFiles[d][dIdx[d]]} :
       \E a \in {AfterEncode(store, mkv, f, outcome, clock)} :
       \E r \in {InlineTop(a.store, a.mkv, Tick(store, f, clock), dFiles[d], dIdx[d] + 1,
                           ReleaseOnExit(encSem, outcome))} :
       /\ mkv' = a.mkv /\ dirs' = a.dirs
       /\ dPc' = Set(dPc, d, r.pc)
       /\ dIdx' = Set(dIdx, d, r.idx)
       /\ dJob' = Set(dJob, d, IF r.pc = "returned" THEN JobComplete(dJob[d]) ELSE dJob[d])
       /\ store' = r.store /\ clock' = r.clock /\ encSem' = r.sem
       /\ UNCHANGED <<op, opFile, opStatus, ret, parent, stem>>
    /\ UNCHANGED <<dExc, dEjected>>
    /\ UNCHANGED <<qDone, qStopped>>
    /\ UNCHANGED <<cfg, nextPath, daemon, runs, ripSem, qRunning, qPc, qFile, dSel, dFiles>>
    /\ UNCHANGED <<watcherVars, selectorVars, pending>>
    /\ dInline' = FrameOf(dInline, d, dPc')
    /\ UNCHANGED dDisc

\* The raw directory of a machine before the daemon starts: some files wait
\* with a "ready" marker, written at distinct times.
InitQueue ==
    /\ \E k \in 0..NumFiles : LET have == 1..k IN
        /\ store = [f \in Files |-> [s \in Statuses |->
                      IF f \in have /\ s = "ready" THEN MarkerData("m1", PyNone, f)
                      ELSE NoMarker]]
        /\ mkv = [f \in Files |-> f \in have]
        /\ nextPath = k + 1
        /\ dirs = IF k = 0 THEN {} ELSE {0}
    /\ parent = [f \in Files |-> 0] /\ stem = [f \in Files |-> f]
    /\ clock = NumFiles + 1
    /\ op = "init" /\ opFile = 0 /\ opStatus = PyNone /\ ret = NoRet
    /\ cfg \in SettingsChoices
    /\ daemon = "down" /\ runs = 0
    /\ ripSem = cfg.max_rips /\ encSem = cfg.max_encodes
    /\ qRunning = FALSE /\ qPc = "off" /\ qFile = 0 /\ qDone = NoneDone
    /\ qStopped = FALSE
    /\ dPc = [d \in Discs |-> "idle"]
    /\ dInline = [d \in Discs |-> FALSE]
    /\ dJob = [d \in Discs |-> NewJob]
    /\ dSel = [d \in Discs |-> 0]
    /\ dIdx = [d \in Discs |-> 0]
    /\ dFiles = [d \in Discs |-> <<>>]
    /\ dExc = [d \in Discs |-> PyNone]
    /\ dEjected = [d \in Discs |-> FALSE]
    /\ dDisc = [d \in Discs |-> NewDisc]
    /\ WatcherIdle
    /\ SelectorIdle
    /\ pending = NoTransition

NextQueue ==
    \/ StartDaemon
    \/ DrainStart
    \/ DrainWake
    \/ DrainAcquire
    \/ \E outcome \in Outcomes : DrainEncodeEnds(outcome)
    \/ StopQueue
    \/ \E d \in Discs, inline \in BOOLEAN : CallProcessDisc(d, inline)
    \/ \E d \in Discs, outcome \in Outcomes : ScanEnds(d, outcome, TRUE)
    \/ \E d \in Discs, outcome \in Outcomes, media \in BOOLEAN, nsel \in 0..MaxTitles :
          MetadataEnds(d, "found", outcome, media, nsel)
    \/ \E d \in Discs : RipAcquire(d)
    \/ \E d \in Discs, outcome \in Outcomes, nmark \in 0..MaxTitles :
          RipTitleEnds(d, outcome, nmark)
    \/ \E d \in Discs : EjectEnds(d)
    \/ \E d \in Discs : InlineAcquire(d)
    \/ \E d \in Discs, outcome \in Outcomes : InlineEncodeEnds(d, outcome)

\* The same machine where the process may die and be started again, under
\* the default settings but for the encode limit.
InitRestart == InitQueue /\ \E n \in 1..MaxLimit : cfg = [DefaultSettings EXCEPT !.max_encodes = n]

NextRestart ==
    \/ NextQueue
    \/ Crash

vars == <<markerVars, watcherVars, queueVars, selectorVars, pending>>

SpecMarkers == InitMarkers /\ [][NextMarkers]_vars

\* The files of one directory (list_jobs does not read names or directories).
InitListing == InitMarkers /\ \A f \in Files : parent[f] = 0

SpecListing == InitListing /\ [][NextListing]_vars

SpecTransition == InitListing /\ [][NextTransition]_vars

SpecWatcher == InitWatcher /\ [][NextWatcher]_vars

SpecQueue == InitQueue /\ [][NextQueue]_vars

SpecRestart == InitRestart /\ [][NextRestart]_vars

\* The event loop runs every task that can run, and every encode call ends:
\* the scheduled process_queue starts, its sleep ends when there is work, a
\* free encode slot is taken by a waiter, and handbrake.encode returns or
\* raises.
FairEncoding ==
    /\ WF_vars(DrainStart)
    /\ WF_vars(DrainWake)
    /\ WF_vars(DrainAcquire)
    /\ WF_vars(\E outcome \in Outcomes : DrainEncodeEnds(outcome))
    /\ WF_vars(\E d \in Discs : InlineAcquire(d))
    /\ WF_vars(\E d \in Discs, outcome \in Outcomes : InlineEncodeEnds(d, outcome))

SpecProgress == InitRestart /\ [][NextQueue]_vars /\ FairEncoding

\* One run under the same fairness where stop() may also come before the
\* scheduled process_queue has started, with one encode slot.
InitStop == InitQueue /\ cfg = [DefaultSettings EXCEPT !.max_encodes = 1]

NextStop ==
    \/ NextQueue
    \/ StopBeforeStart

SpecStop == InitStop /\ [][NextStop]_vars /\ FairEncoding

\* One run in which every process_disc call is made with encode=False, so
\* that process_queue is the only caller of handbrake.encode: the inline
\* steps are never reached, and nor is the wait for an encode slot.
NextDrain ==
    \/ StartDaemon
    \/ DrainStart
    \/ DrainWake
    \/ \E outcome \in Outcomes : DrainEncodeEnds(outcome)
    \/ StopQueue
    \/ \E d \in Discs : CallProcessDisc(d, FALSE)
    \/ \E d \in Discs, outcome \in Outcomes : ScanEnds(d, outcome, TRUE)
    \/ \E d \in Discs, outcome \in Outcomes, media \in BOOLEAN, nsel \in 0..MaxTitles :
          MetadataEnds(d, "found", outcome, media, nsel)
    \/ \E d \in Discs : RipAcquire(d)
    \/ \E d \in Discs, outcome \in Outcomes, nmark \in 0..MaxTitles :
          RipTitleEnds(d, outcome, nmark)
    \/ \E d \in Discs : EjectEnds(d)

SpecDrain == InitQueue /\ [][NextDrain]_vars

\* One run, with one encode slot, in which one disc is processed while the
\* drain loop runs: the disc may have no name and the metadata services may
\* find nothing or fail. (In the other specifications every disc has a name
\* and is found by its DVD ID.)
InitDisc == InitQueue /\ cfg = [DefaultSettings EXCEPT !.max_encodes = 1]

NextDisc ==
    \/ StartDaemon
    \/ DrainStart
    \/ DrainWake
    \/ DrainAcquire
    \/ \E outcome \in Outcomes : DrainEncodeEnds(outcome)
    \/ \E inline \in BOOLEAN : CallProcessDisc(1, inline)
    \/ \E d \in Discs, outcome \in Outcomes, named \in BOOLEAN :
          ScanEnds(d, outcome, named)
    \/ \E d \in Discs, lookup \in Lookups : LookupMisses(d, lookup)
    \/ \E d \in Discs, lookup \in Lookups, outcome \in Outcomes :
          \E media \in BOOLEAN, nsel \in 0..MaxTitles :
             MetadataEnds(d, lookup, outcome, media, nsel)
    \/ \E d \in Discs, outcome \in Outcomes, nmark \in 0..MaxTitles :
          RipTitleEnds(d, outcome, nmark)
    \/ \E d \in Discs : EjectEnds(d)
    \/ \E d \in Discs : InlineAcquire(d)
    \/ \E d \in Discs, outcome \in Outcomes : InlineEncodeEnds(d, outcome)

SpecDisc == InitDisc /\ [][NextDisc]_vars

\* ---------------------------------------------------- title selector calls
\* Durations on either side of every threshold of classify_disc and of the
\* two default minimums; sizes that make titles duplicates or not.
Durations == {200, 300, 600, 2500, 2600, 7200}
Sizes == {0, 1}
EpisodeDurations == {2500, 2520}

\* Sizes of the episodes of a TV disc: not reported (size_bytes keeps its
\* default of 0), all different, or the last episode as large as the first.
SizePatterns == {"default", "distinct", "repeat"}

EpisodeSize(pattern, i, n) ==
    CASE pattern = "default" -> 0
      [] pattern = "distinct" -> i
      [] pattern = "repeat" -> IF i = n THEN 1 ELSE i

\* A disc of any content: up to MaxDiscTitles titles, indexed in disc order
\* or listed in reverse.
AnyDisc(n, reversed, d, s) ==
    [i \in 1..n |-> NewTitle(IF reversed THEN n - i ELSE i - 1, d[i], s[i], 1)]

\* A TV disc: n episodes and a play-all title, the concatenation of the
\* episodes, listed before or after them.
TvDisc(n, first, d, s, segment_count) ==
    LET episodes == [i \in 1..n |->
                        NewTitle(IF first THEN i ELSE i - 1, d[i], EpisodeSize(s, i, n), 1)]
        play_all == NewTitle(IF first THEN 0 ELSE n, SumDurations(episodes), 0, segment_count)
    IN  IF first THEN <<play_all>> \o episodes ELSE episodes \o <<play_all>>

InitSelector ==
    /\ MarkersIdle
    /\ WatcherIdle
    /\ QueueIdle
    /\ \E max_titles \in {2, DefaultSelector.max_titles} :
          selector = [DefaultSelector EXCEPT !.max_titles = max_titles]
    /\ \/ \E n \in 0..MaxDiscTitles, reversed \in BOOLEAN :
             \E d \in [1..n -> Durations], s \in [1..n -> Sizes] :
                discTitles = AnyDisc(n, reversed, d, s)
       \/ \E n \in 4..MaxEpisodes, first \in BOOLEAN, segmented \in BOOLEAN :
             \E d \in [1..n -> EpisodeDurations], s \in SizePatterns :
                discTitles = TvDisc(n, first, d, s, IF segmented THEN n ELSE 1)
    /\ selOp = "init" /\ selArg = <<>> /\ selClass = PyNone /\ selected = <<>>
    /\ pending = NoTransition

\* selector.classify_disc(titles)
ClassifyDiscCall ==
    /\ selOp' = "classify_disc"
    /\ selClass' = ClassifyDisc(discTitles)
    /\ selArg' = <<>>
    /\ selected' = <<>>
    /\ UNCHANGED <<selector, discTitles, markerVars, watcherVars, queueVars, pending>>

MinDurationArgs == {<<>>, <<300>>, <<600>>}

\* selector.select_titles(titles, min_duration)
SelectTitlesCall(min_duration) ==
    /\ selOp' = "select_titles"
    /\ selArg' = min_duration
    /\ selClass' = ClassifyDisc(discTitles)
    /\ selected' = SelectTitles(selector, discTitles, min_duration)
    /\ UNCHANGED <<selector, discTitles, markerVars, watcherVars, queueVars, pending>>

NextSelector ==
    \/ ClassifyDiscCall
    \/ \E min_duration \in MinDurationArgs : SelectTitlesCall(min_duration)

SpecSelector == InitSelector /\ [][NextSelector]_vars

\* ------------------------------------------------------------------ claims
MarkerCount(st, f) == Cardinality({s \in Statuses : st[f][s].exists})

\* C1: after every create_marker / update_status call (in any sequence, from a
\* file with zero or one marker) at most one of the four marker suffixes
\* exists for the file.
C1_MarkerExclusivity == \A f \in Files : MarkerCount(store, f) <= 1

\* A file whose marker was replaced by a second create_marker / update_status.
C1_Witness ==
    /\ op \in {"create_marker", "update_status"}
    /\ MarkerCount(store, opFile) = 1
    /\ store[opFile][GetStatus(store, opFile)].created_at > NumFiles + 1

\* C3: after recover_interrupted() every file whose marker was "transcoding"
\* has a "ready" marker, no file has a "transcoding" marker, and the returned
\* count is the number of markers demoted.
C3_RecoveryInvariant ==
    [][op' = "recover_interrupted" =>
        /\ \A f \in Files :
              store[f]["transcoding"].exists =>
                  /\ store'[f]["ready"].exists
                  /\ GetStatus(store', f) = "ready"
        /\ \A f \in Files : ~store'[f]["transcoding"].exists
        /\ ret'.count = Cardinality({f \in Files : store[f]["transcoding"].exists})
        /\ \A f \in Files :
              ~store[f]["transcoding"].exists => store'[f] = store[f]]_vars

\* recover_interrupted has just demoted two markers.
C3_Witness ==
    /\ op = "recover_interrupted"
    /\ ret.count = 2
    /\ \A f \in Files : store[f]["ready"].exists

Total(fn) == LET RECURSIVE Sum(_)
                 Sum(S) == IF S = {} THEN 0
                           ELSE LET d == CHOOSE x \in S : TRUE IN fn[d] + Sum(S \ {d})
             IN Sum(DOMAIN fn)

\* C4: with the polling backend, the async on_insert / on_remove given to
\* start() has run to completion for every transition the poller has handled
\* by the time the poller is at its next probe or sleep.
C4_CallbacksAwaited ==
    wMethod = "polling" =>
        \A d \in Devices : /\ insertRan[d] = insertCalls[d]
                           /\ removeRan[d] = removeCalls[d]

\* A step of the backend loop of start().
WatcherStep ==
    \/ wPc' # wPc
    \/ wIdx' # wIdx
    \/ probeLog' # probeLog
    \/ (wMethod = "udev" /\ toggles' # toggles)

\* C5: once stop() was called while start() runs, the next step of the backend
\* loop (its next check point) ends start(), whether or not a disc event occurs.
C5_StopExits ==
    [][(stopRequested /\ wPc \in {"sleeping", "probing", "monitoring"} /\ WatcherStep)
        => wPc' \in {"done", "raised"}]_vars

\* C6: with the udev backend every change notification of a watched drive
\* runs the async callback to completion and start() does not raise.
C6_UdevBridging ==
    wMethod = "udev" =>
        /\ wPc # "raised"
        /\ \A d \in Devices : /\ insertRan[d] = insertCalls[d]
                              /\ removeRan[d] = removeCalls[d]

\* The number of places of a probe sequence where `from` is followed by `to`.
Transitions(log, from, to) ==
    Cardinality({i \in 1..(Len(log) - 1) : log[i] = from /\ log[i + 1] = to})

\* C7: with the polling backend, for each device the number of on_insert calls
\* is the number of absent->present transitions between consecutive probes,
\* and the number of on_remove calls the number of present->absent ones.
C7_WatcherDedup ==
    wMethod = "polling" =>
        \A d \in Devices : /\ insertCalls[d] = Transitions(probeLog[d], FALSE, TRUE)
                           /\ removeCalls[d] = Transitions(probeLog[d], TRUE, FALSE)

\* The probe sequence [absent, absent, present, present, absent] of one device.
C7_Witness ==
    /\ wMethod = "polling"
    /\ \E d \in Devices : /\ probeLog[d] = <<FALSE, FALSE, TRUE, TRUE, FALSE>>
                          /\ insertCalls[d] = 1
                          /\ removeCalls[d] = 1

\* C8: with once=true, as soon as an insertion was detected start() has
\* returned (it did not raise) and on_insert was invoked exactly once.
C8_OneShot ==
    (wOnce /\ Total(insertCalls) > 0) =>
        /\ wPc = "done"
        /\ Total(insertCalls) = 1

\* The files an encode of the running process holds or waits for: the drain
\* loop's job and the output file each inline encode is at.
EncodesOfThisRun ==
    (IF qPc \in {"encoding", "enc_wait"} THEN {qFile} ELSE {})
    \cup {dFiles[d][dIdx[d]] : d \in {e \in Discs : dPc[e] \in {"encoding", "enc_wait"}}}

\* C2: once a started daemon runs its drain loop, no marker is in
\* "transcoding" but those of the encodes of this run: a "transcoding" marker
\* left by a previous run was demoted to "ready" at the start.
C2_StartupRecovery ==
    (daemon = "up" /\ qPc # "scheduled") =>
        \A f \in Files : store[f]["transcoding"].exists => f \in EncodesOfThisRun

\* The process_disc calls inside `async with self._rip_semaphore`.
RipPhase == {d \in Discs : dPc[d] = "ripping"}

\* C9: the number of process_disc calls in their rip phase (one rip_title in
\* flight each) is the number of rip slots held and never exceeds
\* max_concurrent_rips, so a call enters its rip phase only while a slot is
\* free; with the limit 1 two rip phases never overlap.
C9_RipBound ==
    /\ Cardinality(RipPhase) <= cfg.max_rips
    /\ cfg.max_rips - ripSem = Cardinality(RipPhase)

\* With the limit 1, one call rips while another waits for the slot.
C9_Witness ==
    /\ cfg.max_rips = 1
    /\ \E d, e \in Discs : dPc[d] = "ripping" /\ dPc[e] = "wait_rip"

\* The handbrake.encode invocations in flight: the drain loop's and the
\* inline ones.
InFlightEncodes ==
    (IF qPc = "encoding" THEN 1 ELSE 0) + Cardinality({d \in Discs : dPc[d] = "encoding"})

\* C10: the number of encode slots held equals the number of encodes in
\* flight (drain loop plus inline) and is at most max_concurrent_encodes,
\* whether the encodes before returned or raised.
C10_EncodeSlots ==
    /\ cfg.max_encodes - encSem = InFlightEncodes
    /\ InFlightEncodes <= cfg.max_encodes

\* With the limit 1, an encode has raised (its file is "failed") and the one
\* slot is held again by a later encode.
C10_Witness ==
    /\ cfg.max_encodes = 1
    /\ InFlightEncodes = 1
    /\ \E f \in Files : store[f]["failed"].exists

\* C19: for a file with a marker, after update_status(f, S) get_status(f) is
\* S and the marker holds the metadata the marker held before the call.
C19_StatusRoundTrip ==
    [][(op' = "update_status" /\ GetStatus(store, opFile') # PyNone) =>
        /\ GetStatus(store', opFile') = opStatus'
        /\ store'[opFile'][opStatus'].metadata
             = store[opFile'][GetStatus(store, opFile')].metadata]_vars

\* update_status has just moved a marker with metadata to another status.
C19_Witness ==
    /\ op = "update_status" /\ ret.ok
    /\ opStatus = "failed"
    /\ GetStatus(store, opFile) = "failed"
    /\ store[opFile]["failed"].metadata = "m1"

\* C20: update_status on a file without a marker returns None and leaves
\* every marker as it was (none is created).
C20_UpdateWithoutMarker ==
    [][(op' = "update_status" /\ GetStatus(store, opFile') = PyNone) =>
        /\ ~ret'.ok
        /\ store' = store]_vars

\* update_status has just been called on a file without a marker.
C20_Witness ==
    /\ op = "update_status" /\ ~ret.ok
    /\ GetStatus(store, opFile) = PyNone

\* How many handbrake.encode invocations are in flight for media file f.
EncodersOf(f) ==
    (IF qPc = "encoding" /\ qFile = f THEN 1 ELSE 0)
    + Cardinality({d \in Discs : dPc[d] = "encoding" /\ dFiles[d][dIdx[d]] = f})

\* C11: at no time are two encode invocations in flight for the same media
\* file (the drain loop and the inline encoding of process_disc never both
\* take a file through transcoding).
C11_SingleOwner == \A f \in Files : EncodersOf(f) <= 1

\* Job.is_terminal: the statuses after which a job runs no more.
TerminalStatuses == {"complete", "failed", "cancelled"}

\* C12: at every point of process_disc, completed_at of the job is set if
\* and only if its status is terminal.
C12_JobTimestamps ==
    \A d \in Discs : dJob[d].completed_at <=> (dJob[d].status \in TerminalStatuses)

\* C13: process_disc never raises: whatever failed (scan, title selection,
\* every rip, marker creation, an inline encode), a call that has ended has
\* returned a job in a terminal status, and a call whose try block raised has
\* returned a 'failed' job whose last error carries the exception's message.
C13_NoPropagation ==
    \A d \in Discs :
        /\ dPc[d] # "raised"
        /\ dPc[d] = "returned" => dJob[d].status \in TerminalStatuses
        /\ dExc[d] # PyNone =>
              /\ dPc[d] = "returned"
              /\ dJob[d].status = "failed"
              /\ dJob[d].errors # <<>>
              /\ dJob[d].errors[Len(dJob[d].errors)].message = dExc[d]

\* One call has returned after create_marker raised, another after its scan
\* raised.
C13_Witness ==
    /\ \E d \in Discs : dPc[d] = "returned" /\ dExc[d] = "marker failed"
    /\ \E d \in Discs : dPc[d] = "returned" /\ dExc[d] = "scan failed"

\* C14: with eject_after_rip enabled, a process_disc call that has ended
\* with its job 'failed' has run the eject of its device.
C14_EjectOnFailure ==
    \A d \in Discs :
        (cfg.eject /\ dPc[d] = "returned" /\ dJob[d].status = "failed") => dEjected[d]

\* process_queue has just ended an encode with the given outcome.
DrainEnded(outcome) == qPc = "encoding" /\ qDone' # qDone /\ qDone'.outcome = outcome

\* C15: when the drain loop's encode of file X fails, X's marker is 'failed'
\* with the error text, the raw file X still exists, and no cleanup has run
\* (no file and no directory is removed), whatever delete_raw_after_encode.
C15_DrainEncodeFailure ==
    [][DrainEnded("raise") =>
        /\ GetStatus(store', qFile) = "failed"
        /\ store'[qFile]["failed"].error = "e1"
        /\ mkv'[qFile]
        /\ mkv' = mkv /\ dirs' = dirs]_vars

\* C17: the drain loop takes only files whose marker is 'ready', and a
\* 'failed' marker stays as it is while no retry / clear command and no
\* create_marker is run on the file.
C17_NoAutomaticRetry ==
    [][/\ (qFile' # 0 /\ qFile' # qFile) => GetStatus(store, qFile') = "ready"
       /\ (qPc # "encoding" /\ qPc' = "encoding") =>
             GetStatus(store, qFile') \in {"ready", "transcoding"}
       /\ \A f \in Files :
             store[f]["failed"].exists => store'[f]["failed"] = store[f]["failed"]]_vars

\* C18: after a successful drain-loop encode of file X: with
\* delete_raw_after_encode, X is deleted, none of its markers remains, and its
\* parent directory is removed exactly if nothing is left in it; without, X
\* exists with exactly a 'complete' marker. No other file or directory is
\* removed.
C18_DrainEncodeSuccess ==
    [][DrainEnded("ok") =>
        IF cfg.delete_raw
        THEN /\ ~mkv'[qFile]
             /\ \A s \in Statuses : ~store'[qFile][s].exists
             /\ \A g \in Files \ {qFile} : mkv'[g] = mkv[g]
             /\ dirs' = IF DirEmpty(store', mkv', parent[qFile])
                        THEN dirs \ {parent[qFile]} ELSE dirs
        ELSE /\ mkv' = mkv /\ dirs' = dirs
             /\ mkv'[qFile]
             /\ {s \in Statuses : store'[qFile][s].exists} = {"complete"}]_vars

\* A successful encode with cleanup has removed the last file of a directory
\* and the directory with it.
C18_Witness ==
    /\ cfg.delete_raw
    /\ qDone.outcome = "ok"
    /\ ~mkv[qDone.file]
    /\ parent[qDone.file] \notin dirs
    /\ \E g \in Files : mkv[g]

\* The file's marker is 'complete' or 'failed', or cleanup removed its markers.
Settled(f) == GetStatus(store, f) \in {"complete", "failed", PyNone}

\* C16: process_queue ends only after stop(), never because an encode failed;
\* and while the loop is not stopped and every encode call ends, each file
\* with a 'ready' marker eventually is 'complete' (or has its markers removed
\* by cleanup) or 'failed'.
C16_DrainProgress ==
    /\ [](qPc = "returned" => ~qRunning)
    /\ \A f \in Files :
          (qRunning /\ GetStatus(store, f) = "ready") ~> (Settled(f) \/ ~qRunning)

\* The drain loop, not stopped, has completed a file after an earlier file's
\* encode failed.
C16_Witness ==
    /\ qRunning
    /\ qDone.outcome = "ok"
    /\ \E g \in Files : g # qDone.file /\ GetStatus(store, g) = "failed"

\* C21: remove_markers(f) leaves f without any marker and the markers of the
\* other files as they were; called again right after, it changes nothing.
\* (The operation has no failing exit: each unlink follows an exists test.)
C21_IdempotentRemoval ==
    [][op' = "remove_markers" =>
        /\ \A s \in Statuses : ~store'[opFile'][s].exists
        /\ \A g \in Files \ {opFile'} : store'[g] = store[g]
        /\ (op = "remove_markers" /\ opFile = opFile') => store' = store]_vars

\* remove_markers has run on a file while another file keeps its marker.
C21_Witness ==
    /\ op = "remove_markers"
    /\ GetStatus(store, opFile) = PyNone
    /\ \E g \in Files : GetStatus(store, g) # PyNone

\* The files whose marker is 'failed'.
FailedFiles(st) == {f \in Files : GetStatus(st, f) = "failed"}

Range(seq) == {seq[i] : i \in 1..Len(seq)}

\* C22: list_jobs('failed') returns exactly the files whose marker is
\* 'failed' (each once); retry_all_failed returns their number, leaves each of
\* them with a 'ready' marker only, and leaves all other files' markers as
\* they were.
C22_RetryAllFailed ==
    [][op' = "retry_all_failed" =>
        /\ Range(ListJobs(store, mkv, "failed")) = FailedFiles(store)
        /\ Len(ListJobs(store, mkv, "failed")) = Cardinality(FailedFiles(store))
        /\ ret'.count = Cardinality(FailedFiles(store))
        /\ \A f \in FailedFiles(store) : {s \in Statuses : store'[f][s].exists} = {"ready"}
        /\ \A f \in Files \ FailedFiles(store) : store'[f] = store[f]]_vars

\* retry_all_failed has retried one job and left a complete one alone.
C22_Witness ==
    /\ op = "retry_all_failed" /\ ret.count = 1
    /\ \E f, g \in Files :
          /\ GetStatus(store, f) = "ready" /\ store[f]["ready"].created_at = clock - 1
          /\ GetStatus(store, g) = "complete"

\* The failed files whose job name is `name`.
FailedNamed(st, name) == {f \in FailedFiles(st) : stem[f] = name}

\* C23: retry_job(name) returns true exactly if some file with a 'failed'
\* marker has that job name; then every failed marker of that name has become
\* 'ready'; markers of files that do not match are unchanged.
C23_RetryJob ==
    [][\A name \in Names : RetryJob(name) =>
        /\ ret'.ok <=> FailedNamed(store, name) # {}
        /\ ret'.ok => \A f \in FailedNamed(store, name) : GetStatus(store', f) = "ready"
        /\ \A f \in Files \ FailedNamed(store, name) : store'[f] = store[f]]_vars

\* The marker of a listed file cannot be read as a record.
Damaged(st, f) == st[f][GetStatus(st, f)].content # "record"

\* C24: list_jobs does not fail when a marker's content is unreadable or not
\* a valid record; the file is listed with the status of the marker suffix,
\* the marker file's modification time as creation time, and no error and no
\* metadata; the records of files with intact markers are as written.
C24_ListingToleratesDamage ==
    [][op' = "list_jobs" =>
        /\ ret'.ok
        /\ ret'.count = Cardinality(ListedFiles(store, mkv, opStatus'))
        /\ \A f \in ListedFiles(store, mkv, opStatus') :
              LET m == store[f][GetStatus(store, f)]
                  j == JobInfoOf(store, f)
              IN  /\ j.status = GetStatus(store, f)
                  /\ Damaged(store, f) =>
                        j.created_at = m.mtime /\ j.error = PyNone /\ j.metadata = PyNone
                  /\ ~Damaged(store, f) =>
                        /\ j.created_at = m.created_at
                        /\ j.error = m.error /\ j.metadata = m.metadata]_vars

\* The job of call d has ended 'failed' and its last error has this stage.
EndedFailed(job, pc, stage) ==
    /\ pc = "returned" /\ job.status = "failed"
    /\ job.errors # <<>> /\ job.errors[Len(job.errors)].stage = stage

\* C25: when title selection returns no title, process_disc ends the job
\* 'failed' with an error of stage 'selection', having acquired no rip slot
\* and started no rip; when titles are selected and every rip fails, it ends
\* the job 'failed' with an error of stage 'ripping'. In both cases the call
\* creates and changes no marker.
C25_RipSideFailures ==
    [][\A d \in Discs :
        /\ (\E lookup \in Lookups : MetadataEnds(d, lookup, "ok", FALSE, 0)) =>
              /\ EndedFailed(dJob'[d], dPc'[d], "selection")
              /\ ripSem' = ripSem /\ dIdx'[d] = 0 /\ dFiles'[d] = <<>>
              /\ store' = store /\ mkv' = mkv
        /\ (\E nmark \in 0..MaxTitles : RipTitleEnds(d, "raise", nmark)
              /\ dIdx[d] = dSel[d] /\ dFiles[d] = <<>>) =>
              /\ dSel[d] > 0
              /\ EndedFailed(dJob'[d], dPc'[d], "ripping")
              /\ store' = store /\ mkv' = mkv
        /\ (dFiles'[d] = <<>> /\ (dPc'[d] # dPc[d] \/ dIdx'[d] # dIdx[d])) =>
              store' = store]_vars

\* One call has ended for want of selected titles and one for want of ripped
\* files, while a marker of another file exists.
C25_Witness ==
    /\ \E d \in Discs : EndedFailed(dJob[d], dPc[d], "selection")
    /\ \E d \in Discs : EndedFailed(dJob[d], dPc[d], "ripping")
    /\ \E f \in Files : GetStatus(store, f) # PyNone

\* C26: when an inline encode of process_disc fails, the file's marker
\* becomes 'failed', the job records an error, and the job does not end
\* 'complete' (it ends 'failed').
C26_InlineFailureFatal ==
    [][\A d \in Discs : InlineEncodeEnds(d, "raise") =>
        /\ GetStatus(store', dFiles[d][dIdx[d]]) = "failed"
        /\ dJob'[d].errors # <<>>
        /\ dJob'[d].status # "complete"
        /\ dPc'[d] = "returned" => dJob'[d].status = "failed"]_vars

\* C27: once stop() has been called, whenever that is relative to the start
\* of process_queue, the drain loop takes no further file, process_queue
\* eventually returns, and the encode in flight still ends with its marker
\* 'complete' (or removed by cleanup) or 'failed'.
C27_SchedulerStop ==
    /\ [][qStopped => (qFile' = qFile \/ qFile' = 0)]_vars
    /\ qStopped ~> (qPc = "returned")
    /\ \A f \in Files :
          (qStopped /\ qFile = f) ~> (GetStatus(store, f) \in {"complete", "failed", PyNone})

IndicesOf(titles) == [i \in 1..Len(titles) |-> titles[i].index]

DurationsOf(titles) == [i \in 1..Len(titles) |-> titles[i].duration]

\* The minimum in force in the last select_titles call: the argument, else
\* the default of the disc's classification.
MinimumInForce ==
    IF selArg # <<>> THEN selArg[1]
    ELSE IF selClass \in {"tv_series", "tv_season"} THEN selector.min_tv_duration
    ELSE selector.min_movie_duration

\* C28: select_titles returns only titles of the input whose duration is at
\* least the minimum in force (the explicit one, else the movie or TV default
\* chosen by classification), ordered by ascending title index; for titles
\* of 7200 s, 600 s and 300 s at indices 0, 1, 2 and a minimum of 600 s the
\* result is the 7200 s and the 600 s title, in index order.
C28_SelectByDuration ==
    selOp = "select_titles" =>
        /\ \A i \in 1..Len(selected) :
              /\ selected[i].duration >= MinimumInForce
              /\ \E j \in 1..Len(discTitles) : discTitles[j] = selected[i]
        /\ \A i, j \in 1..Len(selected) :
              i < j => selected[i].index < selected[j].index
        /\ (/\ DurationsOf(discTitles) = <<7200, 600, 300>>
            /\ IndicesOf(discTitles) = <<0, 1, 2>>
            /\ MinimumInForce = 600)
           => (IndicesOf(selected) = <<0, 1>> /\ DurationsOf(selected) = <<7200, 600>>)

C28_Witness ==
    /\ selOp = "select_titles"
    /\ DurationsOf(discTitles) = <<7200, 600, 300>>
    /\ IndicesOf(discTitles) = <<0, 1, 2>>
    /\ selArg = <<600>>
    /\ IndicesOf(selected) = <<0, 1>>

\* Within five minutes of each other: the tolerance classify_disc groups
\* episode-length titles with.
Similar(titles) ==
    \A i, j \in 1..Len(titles) : Abs(titles[i].duration - titles[j].duration) <= 300

EpisodeLength(titles) ==
    \A i \in 1..Len(titles) : 1200 <= titles[i].duration /\ titles[i].duration < 3600

Without(titles, p) == SubSeq(titles, 1, p - 1) \o SubSeq(titles, p + 1, Len(titles))

\* The disc is n >= 4 similar episode-length titles plus, at position p, a
\* title whose duration is the sum of theirs.
PlayAllAt(titles, p) ==
    /\ Len(titles) >= 5
    /\ EpisodeLength(Without(titles, p))
    /\ Similar(Without(titles, p))
    /\ titles[p].duration = SumDurations(Without(titles, p))

\* C29: for a disc of n >= 4 episode titles of similar length plus one
\* play-all title whose duration is the sum of the episodes, select_titles
\* (with a title limit that admits the disc) returns exactly the n episode
\* titles: the play-all title is excluded and every episode is kept.
C29_PlayAllFiltered ==
    \A p \in 1..Len(discTitles) :
        (/\ selOp = "select_titles"
         /\ PlayAllAt(discTitles, p)
         /\ Len(discTitles) <= selector.max_titles)
        => selected = Without(discTitles, p)

\* C30: classify_disc returns TV_SERIES for a disc whose titles are 2 or 3
\* episode-length titles (20 to 60 minutes each) of similar duration, with
\* no long title; for instance durations of 2500 s and 2600 s.
C30_TvSeries ==
    (/\ selOp = "classify_disc"
     /\ Len(discTitles) \in {2, 3}
     /\ EpisodeLength(discTitles)
     /\ Similar(discTitles))
    => selClass = "tv_series"

\* C31: during a status transition (create_marker / update_status) of a file
\* that already has a marker there is no intermediate state, seen by a
\* concurrent reader or left behind by a crash between the transition's
\* steps, in which the file has no marker or has two markers: no step of a
\* transition, and no crash, takes a file with one marker to a state where
\* it has none or two.
C31_AtomicReplacement ==
    [][\A f \in Files : MarkerCount(store, f) = 1 => MarkerCount(store', f) = 1]_vars

\* The chain pending -> scanning -> ripping -> ripped -> encoding -> complete.
Chain == <<"pending", "scanning", "ripping", "ripped", "encoding", "complete">>

\* A change of status the claim admits: to the next state of the chain, or
\* from a non-terminal state to failed or cancelled.
StatusStep(a, b) ==
    \/ \E i \in 1..(Len(Chain) - 1) : a = Chain[i] /\ b = Chain[i + 1]
    \/ a \notin TerminalStatuses /\ b \in {"failed", "cancelled"}

\* The values job.status takes in one step of call d, the first being the
\* value before the step: the end of a rip phase with files assigns RIPPED
\* (line 138) before anything else, and an inline encode that finds no file
\* to encode assigns ENCODING (line 167) right before job.complete().
StatusTrail(d) ==
    LET a == dJob[d].status
        b == dJob'[d].status
        ripped == IF dPc[d] = "ripping" /\ dPc'[d] # "ripping" /\ dFiles'[d] # <<>>
                  THEN <<"ripped">> ELSE <<>>
        encoding == IF /\ b = "complete"
                       /\ a = "ripped" \/ ripped # <<>>
                       /\ dInline[d] /\ cfg.encode_enabled
                    THEN <<"encoding">> ELSE <<>>
        t == <<a>> \o ripped \o encoding
    IN  IF t[Len(t)] = b THEN t ELSE Append(t, b)

\* C32: over any run of process_disc, every change of the job's status is a
\* step to the next state of the chain pending -> scanning -> ripping ->
\* ripped -> encoding -> complete, or a move from a non-terminal state to
\* failed or cancelled; a terminal status is never changed again.
C32_StatusTransitions ==
    [][\A d \in Discs :
          \A i \in 1..(Len(StatusTrail(d)) - 1) :
              StatusStep(StatusTrail(d)[i], StatusTrail(d)[i + 1])]_vars

\* C33: inside one disc's rip phase the rip_title calls are the selected
\* titles in selection order, one at a time and each once: the phase starts
\* at the first title with no file, every attempt but the last is followed
\* by the attempt of the next title whether it succeeded or failed, the
\* phase ends with the last title's attempt, and the result grows by exactly
\* the file of each successful attempt, in that order.
C33_RipOrder ==
    [][\A d \in Discs :
          /\ (dPc[d] # "ripping" /\ dPc'[d] = "ripping")
                => (dIdx'[d] = 1 /\ dFiles'[d] = <<>> /\ dSel'[d] >= 1)
          /\ (dPc[d] = "ripping" /\ dIdx'[d] # dIdx[d])
                => \E outcome \in Outcomes, nmark \in 0..MaxTitles : RipTitleEnds(d, outcome, nmark)
          /\ \A outcome \in Outcomes, nmark \in 0..MaxTitles :
                RipTitleEnds(d, outcome, nmark) =>
                    /\ dFiles'[d] = IF outcome = "ok" THEN Append(dFiles[d], nextPath)
                                    ELSE dFiles[d]
                    /\ IF dIdx[d] < dSel[d]
                       THEN dPc'[d] = "ripping" /\ dIdx'[d] = dIdx[d] + 1 /\ dSel'[d] = dSel[d]
                       ELSE dPc'[d] # "ripping"]_vars

\* The first title of a disc failed and the second one is being ripped.
C33_Witness ==
    \E d \in Discs : dPc[d] = "ripping" /\ dIdx[d] = 2 /\ dSel[d] = 2 /\ dFiles[d] = <<>>

\* The rip phase of call d ends in this step with at least one file, and
\* every create_marker call of lines 145-153 returns.
RipPhaseEndsWithFiles(d) ==
    /\ \E outcome \in Outcomes :
          RipTitleEnds(d, outcome, Len(RippedFiles(dFiles[d], nextPath, outcome)))
    /\ dIdx[d] = dSel[d]
    /\ dFiles'[d] # <<>>

\* The one marker of f after the step is the "ready" marker, or the
\* "transcoding" marker when the same step went on (no eject, inline encode)
\* to start encoding f.
ReadyAfterRip(d, f) ==
    \/ GetStatus(store', f) = "ready"
    \/ /\ GetStatus(store', f) = "transcoding"
       /\ dPc'[d] \in {"encoding", "enc_wait"}
       /\ dFiles'[d][dIdx'[d]] = f

\* C34: when the rip phase ends with at least one extracted title, the job
\* becomes 'ripped', output_files is the list of extracted files (one per
\* title that was ripped, none for a title whose rip failed), every
\* extracted file has exactly one marker, 'ready', carrying the disc's
\* metadata dict, and no other file's markers change.
C34_ReadyMarkers ==
    [][\A d \in Discs :
          RipPhaseEndsWithFiles(d) =>
              /\ "ripped" \in Range(StatusTrail(d))
              /\ \A i \in 1..Len(dFiles'[d]) :
                    LET f == dFiles'[d][i] IN
                    /\ mkv'[f]
                    /\ MarkerCount(store', f) = 1
                    /\ ReadyAfterRip(d, f)
                    /\ store'[f][GetStatus(store', f)].metadata = MetadataDict(dDisc[d])
                    /\ store'[f][GetStatus(store', f)].error = PyNone
              /\ \A i, j \in 1..Len(dFiles'[d]) : dFiles'[d][i] = dFiles'[d][j] => i = j
              /\ \A f \in Files \ Range(dFiles'[d]) : store'[f] = store[f]]_vars

\* Two titles of a disc without a name and without metadata were ripped and
\* both files are marked ready with the dict of that disc, before the eject.
C34_Witness ==
    \E d \in Discs :
        /\ dPc[d] = "ejecting"
        /\ dDisc[d] = NewDisc
        /\ Len(dFiles[d]) = 2
        /\ \A i \in 1..2 : /\ GetStatus(store, dFiles[d][i]) = "ready"
                            /\ store[dFiles[d][i]]["ready"].metadata = "m5"

\* Call d returns its job complete by this step and leaves the semaphores,
\* the files and every marker as they were.
SkippedInStep(d) ==
    /\ dPc'[d] = "returned"
    /\ dJob'[d].status = "complete"
    /\ dJob'[d].errors = <<>>
    /\ ripSem' = ripSem /\ encSem' = encSem
    /\ dFiles'[d] = <<>>
    /\ store' = store /\ mkv' = mkv /\ nextPath' = nextPath

\* C35: when the directory expected for the disc already holds extracted
\* media, process_disc returns the job in 'complete' without taking the rip
\* slot, without a rip or an encode, and without creating, changing or
\* removing a marker.
C35_DedupSkip ==
    [][\A d \in Discs, lookup \in Lookups, nsel \in 0..MaxTitles :
          MetadataEnds(d, lookup, "ok", TRUE, nsel) => SkippedInStep(d)]_vars

\* What the claim has _lookup_metadata keep when its last service, the
\* primary one at "metadata" and the secondary one at "search", gave `lookup`.
FirstSuccess(pc, lookup) ==
    CASE lookup = "found" /\ pc = "metadata" -> "arm"
      [] lookup = "found" /\ pc = "search" -> "tmdb"
      [] OTHER -> PyNone

\* C36: whatever the primary lookup and the secondary search give (metadata,
\* nothing, an exception), the job is not failed by it and process_disc goes
\* on to the title selection (to 'ripping' when titles are selected); the
\* secondary search is awaited only after a primary lookup that gave no
\* metadata, and the metadata kept is that of the first service that found
\* some.
C36_MetadataResolution ==
    [][\A d \in Discs, lookup \in Lookups :
          /\ LookupMisses(d, lookup) =>
                /\ dJob'[d] = dJob[d] /\ dJob[d].status = "scanning"
                /\ dDisc'[d].metadata = PyNone
          /\ dPc'[d] = "search" /\ dPc[d] # "search" =>
                /\ dPc[d] = "metadata"
                /\ dDisc[d].metadata = PyNone /\ dDisc'[d].metadata = PyNone
          /\ dPc[d] = "search" /\ dPc'[d] # "search" /\ daemon' = "up" =>
                dDisc'[d].metadata \in {PyNone, "tmdb"}
          /\ \A nsel \in 0..MaxTitles, media \in BOOLEAN :
                MetadataEnds(d, lookup, "ok", media, nsel) =>
                   /\ dDisc'[d].metadata = FirstSuccess(dPc[d], lookup)
                   /\ ~(media /\ lookup = "found") =>
                         /\ dSel'[d] = nsel
                         /\ nsel > 0 => /\ dJob'[d].status = "ripping"
                                        /\ dJob'[d].errors = <<>>
                                        /\ dPc'[d] \in {"ripping", "wait_rip"}
                         /\ nsel = 0 => /\ dJob'[d].status = "failed"
                                        /\ dJob'[d].errors[1].stage = "selection"]_vars

\* Neither the primary lookup nor the secondary search gave metadata (each
\* found nothing or raised), and the named disc is being ripped without.
C36_Witness ==
    \E d \in Discs :
        /\ dPc[d] = "ripping"
        /\ dDisc[d] = [name |-> "DISC", metadata |-> PyNone]
        /\ dJob[d].status = "ripping" /\ dJob[d].errors = <<>>

\* The drain loop takes a job in this step: process_queue passes line 500
\* with a job on starting, on waking, or after the encode before.
DrainTakes ==
    /\ DrainStart \/ DrainWake \/ \E outcome \in Outcomes : DrainEncodeEnds(outcome)
    /\ qPc' \in {"encoding", "enc_wait"}

\* The media files that have a "ready" marker.
ReadyFiles == {f \in Files : mkv[f] /\ store[f]["ready"].exists}

\* C37: whenever the drain loop takes a job, the file taken is one of the
\* files in 'ready' and has the smallest marker creation timestamp among
\* them; it is the file marked 'transcoding' by the step.
C37_DrainOrder ==
    [][DrainTakes =>
          /\ qFile' \in ReadyFiles
          /\ \A g \in ReadyFiles :
                store[qFile']["ready"].created_at <= store[g]["ready"].created_at
          /\ GetStatus(store', qFile') = "transcoding"]_vars

\* The drain loop took a file while a file of a lower path was ready too,
\* marked ready before the take (hence after the file taken): the order is
\* that of the markers' timestamps, not of the paths.
C37_Witness ==
    /\ qPc = "encoding"
    /\ \E g \in ReadyFiles :
          /\ g # qFile
          /\ store[g]["ready"].created_at < store[qFile]["transcoding"].created_at
          /\ g < qFile

\* C38: a ripped file whose marker carries its disc's metadata is encoded by
\* the drain loop to the output path that the inline encoding of
\* process_disc, get_output_path(job.disc, file), gives for it.
C38_InlineDrainAgree ==
    [][\A outcome \in Outcomes, d \in Discs :
          (/\ DrainEncodeEnds(outcome)
           /\ \E i \in 1..Len(dFiles[d]) : dFiles[d][i] = qFile
           /\ GetStatus(store, qFile) # PyNone
           /\ JobInfoOf(store, qFile).metadata = MetadataDict(dDisc[d]))
              => qDone'.output = GetOutputPath(dDisc[d], StemName(stem[qFile]))]_vars

\* The files that have a "transcoding" marker.
TranscodingFiles == {f \in Files : store[f]["transcoding"].exists}

FreshMarker(f) ==
    /\ MarkerCount(store', f) = 1
    /\ \A g \in Files, s \in Statuses :
          store[g][s].exists =>
              store[g][s].created_at < store'[f][GetStatus(store', f)].created_at

\* g is listed before f.
ListedBefore(jobs, g, f) ==
    \E i, j \in 1..Len(jobs) : i < j /\ jobs[i] = g /\ jobs[j] = f

\* C40: every status transition (create_marker, update_status of a file
\* with a marker) writes a fresh creation timestamp and stores the error
\* given, none when none is given; a file returned to 'ready' by retry_job,
\* retry_all_failed or recover_interrupted has a fresh timestamp and no
\* stored error, and list_jobs('ready') has it after every file that was
\* 'ready' before the call.
C40_FreshTransitions ==
    [][/\ op' = "create_marker" =>
             \A m \in MetadataArgs, e \in ErrorArgs :
                CreateMarker(opFile', opStatus', m, e) =>
                   /\ GetStatus(store', opFile') = opStatus' /\ FreshMarker(opFile')
                   /\ store'[opFile'][opStatus'].error = (IF e \in {PyNone, ""} THEN PyNone ELSE e)
       /\ op' = "update_status" /\ GetStatus(store, opFile') # PyNone =>
             \A e \in ErrorArgs :
                UpdateStatus(opFile', opStatus', e) =>
                   /\ GetStatus(store', opFile') = opStatus' /\ FreshMarker(opFile')
                   /\ store'[opFile'][opStatus'].error = (IF e \in {PyNone, ""} THEN PyNone ELSE e)
       /\ op' \in {"retry_job", "retry_all_failed", "recover_interrupted"} =>
             \A f \in Files :
                store'[f] # store[f] =>
                   /\ GetStatus(store, f) \in {"failed", "transcoding"}
                   /\ GetStatus(store', f) = "ready" /\ FreshMarker(f)
                   /\ store'[f]["ready"].error = PyNone
                   /\ \A g \in Files :
                         GetStatus(store, g) = "ready" =>
                            ListedBefore(ListJobs(store', mkv', "ready"), g, f)]_vars

\* retry_job has put a failed file, whose marker held an error, behind a
\* file of a higher path that was ready already.
C40_Witness ==
    /\ op = "retry_job" /\ ret.ok
    /\ ListJobs(store, mkv, "ready") = <<2, 1>>
    /\ store[1]["ready"].error = PyNone
    /\ store[1]["ready"].created_at > NumFiles
    /\ store[2]["ready"].created_at <= NumFiles

====
